---- MODULE Spec2Model ----
(***************************************************************************)
(* Model of the raven-md-editor retrieval core: the server-side MMD line   *)
(* index (src/app/api/utils/mmdIndex.ts) and the context assembler         *)
(* getRelevantContext (src/app/api/edit/route.ts).                         *)
(*                                                                         *)
(* A JavaScript string is a sequence of one-character strings.  Line       *)
(* numbers are the 0-based global indices of the source; lineTexts[n + 1]  *)
(* is the text of line n.                                                  *)
(***************************************************************************)
EXTENDS Integers, Sequences, FiniteSets

(***************************************************************************)
(* JavaScript string primitives                                            *)
(***************************************************************************)

SetMin(S) == CHOOSE x \in S : \A y \in S : x <= y

SetMax(S) == CHOOSE x \in S : \A y \in S : y <= x

\* Array.from(set).sort((a, b) => a - b)
SortAscending(S) ==
    [k \in 1..Cardinality(S) |-> CHOOSE x \in S : Cardinality({y \in S : y < x}) = k - 1]

\* the elements of an array as a set
Elements(seq) == {seq[i] : i \in 1..Len(seq)}

\* Array.prototype.slice(0, n)
SliceFirst(seq, n) == SubSeq(seq, 1, IF n < Len(seq) THEN n ELSE Len(seq))

\* \s of a regular expression, and the characters trim() strips
Whitespace == {" ", "\n", "\t"}

\* \d
DigitChars == {"0", "1", "2", "3", "4", "5", "6", "7", "8", "9"}

UpperCase == <<"A", "B", "C", "D", "E", "F", "G", "H", "I", "J", "K", "L", "M", "N", "O", "P", "Q", "R", "S", "T", "U", "V", "W", "X", "Y", "Z">>

LowerCase == <<"a", "b", "c", "d", "e", "f", "g", "h", "i", "j", "k", "l", "m", "n", "o", "p", "q", "r", "s", "t", "u", "v", "w", "x", "y", "z">>

\* \w
WordChars == Elements(UpperCase) \cup Elements(LowerCase) \cup DigitChars \cup {"_"}

LowerOf == [c \in Elements(UpperCase) |-> LowerCase[CHOOSE i \in 1..26 : UpperCase[i] = c]]

toLowerChar(c) == IF c \in DOMAIN LowerOf THEN LowerOf[c] ELSE c

\* String.prototype.toLowerCase
toLowerCase(s) == [i \in 1..Len(s) |-> toLowerChar(s[i])]

\* String.prototype.trim
trim(s) ==
    LET keep == {i \in 1..Len(s) : s[i] \notin Whitespace}
    IN  IF keep = {} THEN <<>> ELSE SubSeq(s, SetMin(keep), SetMax(keep))

Clamp(n, len) == IF n < 0 THEN 0 ELSE IF n > len THEN len ELSE n

\* String.prototype.substring(a, b): 0-based, end exclusive, arguments clamped
\* to the string and swapped when a > b
substring(s, a, b) ==
    LET x == Clamp(a, Len(s))
        y == Clamp(b, Len(s))
    IN  IF x <= y THEN SubSeq(s, x + 1, y) ELSE SubSeq(s, y + 1, x)

\* String.prototype.substring(a)
substringFrom(s, a) == substring(s, a, Len(s))

\* p is found in s at the 0-based position i
MatchesAt(s, p, i) ==
    /\ i >= 0
    /\ i + Len(p) <= Len(s)
    /\ \A k \in 1..Len(p) : s[i + k] = p[k]

\* String.prototype.indexOf(p, from): 0-based position, -1 when absent
indexOfFrom(s, p, from) ==
    LET hits == {i \in Clamp(from, Len(s))..(Len(s) - Len(p)) : MatchesAt(s, p, i)}
    IN  IF hits = {} THEN -1 ELSE SetMin(hits)

indexOf(s, p) == indexOfFrom(s, p, 0)

\* String.prototype.includes
includes(s, p) == indexOf(s, p) # -1

\* the maximal runs of characters of class C in s, as <<start, end>> pairs
\* (1-based, inclusive) in the order they occur
Runs(s, C) ==
    LET starts == {i \in 1..Len(s) : s[i] \in C /\ (i = 1 \/ s[i - 1] \notin C)}
        EndOf(i) == SetMin({j \in i..Len(s) : j = Len(s) \/ s[j + 1] \notin C})
        order == SortAscending(starts)
    IN  [k \in 1..Len(order) |-> <<order[k], EndOf(order[k])>>]

\* String.prototype.split(/\s+/): the pieces between whitespace runs; a
\* leading or trailing whitespace run leaves an empty first or last piece
splitWhitespace(s) ==
    LET nonWs == {s[i] : i \in 1..Len(s)} \ Whitespace
        runs == Runs(s, nonWs)
        pieces == [k \in 1..Len(runs) |-> SubSeq(s, runs[k][1], runs[k][2])]
        lead == IF Len(s) = 0 \/ s[1] \in Whitespace THEN << <<>> >> ELSE <<>>
        trail == IF Len(s) > 0 /\ s[Len(s)] \in Whitespace THEN << <<>> >> ELSE <<>>
    IN  lead \o pieces \o trail

\* Array.prototype.join
RECURSIVE join(_, _)
join(parts, sep) ==
    IF Len(parts) = 0 THEN <<>>
    ELSE IF Len(parts) = 1 THEN parts[1]
    ELSE parts[1] \o sep \o join(Tail(parts), sep)

\* String.prototype.replace(/p1|p2|.../g, ''): one left-to-right pass over s
\* removing every match of one of the literal patterns
RECURSIVE removeAll(_, _)
removeAll(s, pats) ==
    LET hits == {i \in 0..(Len(s) - 1) : \E p \in pats : Len(p) > 0 /\ MatchesAt(s, p, i)}
        first == SetMin(hits)
        hit == {p \in pats : Len(p) > 0 /\ MatchesAt(s, p, first)}
        p == CHOOSE q \in hit : \A r \in hit : Len(r) <= Len(q)
    IN  IF hits = {} THEN s
        ELSE SubSeq(s, 1, first) \o removeAll(SubSeq(s, first + Len(p) + 1, Len(s)), pats)

\* String.prototype.replace(/c/g, d) for single characters
replaceChar(s, c, d) == [i \in 1..Len(s) |-> IF s[i] = c THEN d ELSE s[i]]

DigitOf(n) == <<"0", "1", "2", "3", "4", "5", "6", "7", "8", "9">>[n + 1]

\* a number in a template literal: its decimal digits
RECURSIVE numberToString(_)
numberToString(n) ==
    IF n < 10 THEN <<DigitOf(n)>>
    ELSE numberToString(n \div 10) \o <<DigitOf(n % 10)>>

(***************************************************************************)
(* The transcript file and the index built from it (mmdIndex.ts)           *)
(***************************************************************************)

\* a line whose text property is missing or not a string
Undefined == <<"undefined">>

\* what the file lookup and JSON.parse of load() can meet: no file, a file
\* that is not JSON, the JSON literal null, an object without a pages array,
\* and an MMDLinesData object
FileMissing == [kind |-> "missing", pages |-> <<>>]

FileUnparseable == [kind |-> "unparseable", pages |-> <<>>]

JsonNull == [kind |-> "null", pages |-> <<>>]

JsonNoPages == [kind |-> "noPages", pages |-> <<>>]

LinesData(pages) == [kind |-> "object", pages |-> pages]

Page(n, texts) == [page |-> n, lines |-> [i \in 1..Len(texts) |-> [text |-> texts[i]]]]

\* the texts of the lines of a transcript, in document order
RECURSIVE TextsOf(_)
TextsOf(pages) ==
    IF Len(pages) = 0 THEN <<>>
    ELSE [i \in 1..Len(Head(pages).lines) |-> Head(pages).lines[i].text]
             \o TextsOf(Tail(pages))

\* let mmdIndexInstance: MMDIndexServer | null = null
NoInstance == [null |-> TRUE]

\* the MMDIndexServer field initialisers
NewInstance ==
    [linesData |-> JsonNull,
     textToLinesMap |-> <<>>,
     lineTexts |-> <<>>,
     chapters |-> <<>>,
     loaded |-> FALSE]

\* Map.get, with the empty list standing for undefined
MapGet(m, k) == IF k \in DOMAIN m THEN m[k] ELSE <<>>

\* the get-or-create of buildIndex followed by a push when allowed
MapPush(m, k, lineNum, allowed) ==
    [x \in (DOMAIN m) \cup {k} |->
        IF x = k
        THEN IF allowed THEN Append(MapGet(m, k), lineNum) ELSE MapGet(m, k)
        ELSE m[x]]

FullTextCap == 50

WordCap == 100

FullTextMaxLen == 200

WordsPerLine == 10

TitleMaxLen == 150

\* /^[\\{}[\](),.;:!?'"]+$/
PunctuationChars ==
    {"\\", "{", "}", "[", "]", "(", ")", ",", ".", ";", ":", "!", "?", "'", "\""}

\* the significant words of a normalized line
SignificantWords(normalizedText) ==
    LET pieces == splitWhitespace(normalizedText)
        kept == SelectSeq(pieces,
                    LAMBDA w : Len(w) > 3 /\ ~(Elements(w) \subseteq PunctuationChars))
    IN  SliceFirst(kept, WordsPerLine)

RECURSIVE IndexWords(_, _, _)
IndexWords(m, words, lineNum) ==
    IF Len(words) = 0 THEN m
    ELSE LET occ == MapGet(m, Head(words))
             allowed == lineNum \notin Elements(occ) /\ Len(occ) < WordCap
         IN  IndexWords(MapPush(m, Head(words), lineNum, allowed), Tail(words), lineNum)

\* buildIndex lines 97-126: the token index entries of one line
IndexText(m, lineText, lineNum) ==
    LET normalizedText == toLowerCase(trim(lineText))
    IN  IF Len(normalizedText) > 2
        THEN LET withFull ==
                     IF Len(normalizedText) < FullTextMaxLen
                     THEN MapPush(m, normalizedText, lineNum,
                                  Len(MapGet(m, normalizedText)) < FullTextCap)
                     ELSE m
             IN  IndexWords(withFull, SignificantWords(normalizedText), lineNum)
        ELSE m

\* the 0-based positions right after a match of  word\*?\{  that starts at i
OpenerEnds(s, word, i) ==
    LET j == i + Len(word)
    IN  IF ~MatchesAt(s, word, i) THEN {}
        ELSE (IF MatchesAt(s, <<"{">>, j) THEN {j + 1} ELSE {})
             \cup (IF MatchesAt(s, <<"*", "{">>, j) THEN {j + 2} ELSE {})

\* the 0-based positions of the first digit of a match of  word\s+\d  that
\* starts at i
NumberStarts(s, word, i) ==
    LET j == i + Len(word)
    IN  IF ~MatchesAt(s, word, i) THEN {}
        ELSE {d \in (j + 1)..(Len(s) - 1) :
                /\ s[d + 1] \in DigitChars
                /\ \A k \in (j + 1)..d : s[k] \in Whitespace}

Positions(s) == 0..Len(s)

\* the heading patterns that need a \section or \chapter wrapper: the six of
\* buildIndex without  Chapter\s+\d+[^}]*\}  and  ^#{1,6}\s+Chapter
IsChapterLineInWrapper(text) ==
    LET lower == toLowerCase(text)
    IN  \/ \E i \in 0..Len(text) : \E e \in OpenerEnds(lower, <<"\\", "s", "e", "c", "t", "i", "o", "n">>, i) :
              \E c \in e..Len(text) :
                  /\ MatchesAt(lower, <<"c", "h", "a", "p", "t", "e", "r">>, c)
                  /\ \A k \in (e + 1)..c : lower[k] # "}"
        \/ \E i \in 0..Len(text) : OpenerEnds(lower, <<"\\", "c", "h", "a", "p", "t", "e", "r">>, i) # {}
        \/ OpenerEnds(lower, <<"\\", "s", "e", "c", "t", "i", "o", "n">>, 0) # {}

\* the six heading patterns of buildIndex lines 132-138
IsChapterLine(text) ==
    LET lower == toLowerCase(text)
    IN  \/ \E i \in Positions(text) : \E e \in OpenerEnds(lower, <<"\\", "s", "e", "c", "t", "i", "o", "n">>, i) :
              \E c \in e..Len(text) :
                  /\ MatchesAt(lower, <<"c", "h", "a", "p", "t", "e", "r">>, c)
                  /\ \A k \in (e + 1)..c : lower[k] # "}"
        \/ \E i \in Positions(text) : OpenerEnds(lower, <<"\\", "c", "h", "a", "p", "t", "e", "r">>, i) # {}
        \/ OpenerEnds(lower, <<"\\", "s", "e", "c", "t", "i", "o", "n">>, 0) # {}
        \/ \E i \in Positions(text) : \E d \in NumberStarts(lower, <<"c", "h", "a", "p", "t", "e", "r">>, i) :
              \E q \in (d + 2)..Len(text) : lower[q] = "}"
        \/ \E h \in 1..6 :
              /\ h <= Len(text)
              /\ \A k \in 1..h : text[k] = "#"
              /\ \E c \in (h + 1)..Len(text) :
                    /\ \A k \in (h + 1)..c : lower[k] \in Whitespace
                    /\ MatchesAt(lower, <<"c", "h", "a", "p", "t", "e", "r">>, c)
        \/ \E i \in Positions(text) : NumberStarts(text, <<"\\", "s", "e", "c", "t", "i", "o", "n", "*", "{", "C", "h", "a", "p", "t", "e", "r">>, i) # {}

\* buildIndex lines 141-149: the clean title of a heading line
ChapterTitle(text) ==
    LET t1 == removeAll(text, {<<"\\", "s", "e", "c", "t", "i", "o", "n", "*", "{">>, <<"\\", "s", "e", "c", "t", "i", "o", "n", "{">>})
        t2 == removeAll(t1, {<<"}">>})
        t3 == removeAll(t2, {<<"\\", "c", "h", "a", "p", "t", "e", "r", "*", "{">>, <<"\\", "c", "h", "a", "p", "t", "e", "r", "{">>})
        t4 == removeAll(t3, {<<"\\", "t", "i", "t", "l", "e", "{">>})
        title == replaceChar(substring(trim(t4), 0, TitleMaxLen), "\n", " ")
    IN  IF Len(title) > 0 THEN title ELSE substring(text, 0, TitleMaxLen)

\* buildIndex lines 128-154: the heading detected on one line, if any
DetectChapter(chapters, lineText, lineNum, pageNo) ==
    LET text == trim(lineText)
    IN  IF Len(text) > 5 /\ IsChapterLine(text)
        THEN Append(chapters, [title |-> ChapterTitle(text), lineNum |-> lineNum, page |-> pageNo])
        ELSE chapters

\* the body of the inner loop of buildIndex for one line; threw records the
\* TypeError of reading .trim() of a text that is not a string
IndexLine(acc, lineText, pageNo) ==
    LET lineNum == Len(acc.lineTexts)
        pushed == [acc EXCEPT !.lineTexts = Append(@, lineText)]
    IN  IF lineText = Undefined
        THEN [pushed EXCEPT !.threw = TRUE]
        ELSE [pushed EXCEPT
                !.textToLinesMap = IndexText(@, lineText, lineNum),
                !.chapters = DetectChapter(@, lineText, lineNum, pageNo)]

RECURSIVE IndexLines(_, _, _)
IndexLines(acc, lines, pageNo) ==
    IF Len(lines) = 0 \/ acc.threw THEN acc
    ELSE IndexLines(IndexLine(acc, Head(lines).text, pageNo), Tail(lines), pageNo)

RECURSIVE IndexPages(_, _)
IndexPages(acc, pages) ==
    IF Len(pages) = 0 \/ acc.threw THEN acc
    ELSE IndexPages(IndexLines(acc, Head(pages).lines, Head(pages).page), Tail(pages))

\* chapters.sort((a, b) => a.lineNum - b.lineNum); every line adds at most
\* one heading, so no two entries share a lineNum
SortChapters(chapters) ==
    LET nums == SortAscending({chapters[i].lineNum : i \in 1..Len(chapters)})
    IN  [k \in 1..Len(nums) |->
            chapters[CHOOSE i \in 1..Len(chapters) : chapters[i].lineNum = nums[k]]]

\* the instance after the loops of buildIndex ended in built, with the final
\* sort when they ended normally
AfterBuild(inst, built) ==
    [inst |-> [inst EXCEPT !.lineTexts = built.lineTexts,
                           !.textToLinesMap = built.textToLinesMap,
                           !.chapters = IF built.threw THEN built.chapters
                                        ELSE SortChapters(built.chapters)],
     threw |-> built.threw]

\* buildIndex without the resets of lines 86-88: it adds to what the
\* instance holds
buildIndexOnTop(inst) ==
    IF inst.linesData.kind = "null"
    THEN [inst |-> inst, threw |-> FALSE]
    ELSE AfterBuild(inst,
             IndexPages([lineTexts |-> inst.lineTexts,
                         textToLinesMap |-> inst.textToLinesMap,
                         chapters |-> inst.chapters,
                         threw |-> inst.linesData.kind = "noPages"],
                        inst.linesData.pages))

\* MMDIndexServer.buildIndex on an instance whose linesData is set; threw
\* tells whether it ended in an exception (pages that cannot be iterated, a
\* text that is not a string)
buildIndex(inst) ==
    IF inst.linesData.kind = "null"
    THEN [inst |-> inst, threw |-> FALSE]
    ELSE AfterBuild(inst,
             IndexPages([lineTexts |-> <<>>, textToLinesMap |-> <<>>, chapters |-> <<>>,
                         threw |-> inst.linesData.kind = "noPages"],
                        inst.linesData.pages))

\* what a load() call leaves: the instance, whether the call reached the
\* file lookup (attempts) and whether it ran buildIndex (builds)
LoadOutcome(inst, attempts, builds) == [inst |-> inst, attempts |-> attempts, builds |-> builds]

\* load() with the catch block of lines 75-80 leaving loaded set
AfterLoadKeepingLoaded(b) == LoadOutcome([b.inst EXCEPT !.loaded = TRUE], 1, 1)

\* load() lines 70-80: loaded is set after a build that did not throw
AfterLoad(b) == LoadOutcome([b.inst EXCEPT !.loaded = ~b.threw], 1, 1)

\* load() without the load-once test of line 45
loadEveryTime(inst, file) ==
    IF file.kind = "missing" THEN LoadOutcome(inst, 1, 0)
    ELSE IF file.kind = "unparseable" THEN LoadOutcome([inst EXCEPT !.loaded = FALSE], 1, 0)
    ELSE AfterLoad(buildIndex([inst EXCEPT !.linesData = file]))

\* MMDIndexServer.load against the file as it is now
load(inst, file) ==
    IF inst.loaded THEN LoadOutcome(inst, 0, 0)
    ELSE IF file.kind = "missing" THEN LoadOutcome(inst, 1, 0)
    ELSE IF file.kind = "unparseable" THEN LoadOutcome([inst EXCEPT !.loaded = FALSE], 1, 0)
    ELSE AfterLoad(buildIndex([inst EXCEPT !.linesData = file]))

(***************************************************************************)
(* The query methods of MMDIndexServer                                     *)
(***************************************************************************)

\* a null selectedText
Null == <<"null">>

\* the guard  !this.loaded || !this.linesData  of the query methods
Unavailable(inst) == ~inst.loaded \/ inst.linesData.kind = "null"

LineText(inst, lineNum) == inst.lineTexts[lineNum + 1]

\* findTextLines lines 169-182: the lines the token map gives for the whole
\* normalized text and for each of its words longer than two characters
IndexMatches(inst, normalized) ==
    LET exactMatch == Elements(MapGet(inst.textToLinesMap, normalized))
        words == SelectSeq(splitWhitespace(normalized), LAMBDA w : Len(w) > 2)
        wordMatches ==
            UNION {Elements(MapGet(inst.textToLinesMap, words[i])) : i \in 1..Len(words)}
    IN  exactMatch \cup wordMatches

\* findTextLines lines 184-189: the lines whose lowercased text includes the
\* normalized text
SequentialMatches(inst, normalized) ==
    {i \in 0..(Len(inst.lineTexts) - 1) :
        includes(toLowerCase(LineText(inst, i)), normalized)}

\* findTextLines answering from the token map alone
findTextLinesIndexOnly(inst, text) ==
    IF Unavailable(inst) THEN <<>>
    ELSE SortAscending(IndexMatches(inst, toLowerCase(trim(text))))

\* findTextLines whose search compares the lines as stored, not lowercased
findTextLinesCaseSensitive(inst, text) ==
    IF Unavailable(inst) THEN <<>>
    ELSE SortAscending(
             IndexMatches(inst, toLowerCase(trim(text)))
                 \cup {i \in 0..(Len(inst.lineTexts) - 1) :
                          includes(LineText(inst, i), toLowerCase(trim(text)))})

\* MMDIndexServer.findTextLines
findTextLines(inst, text) ==
    IF Unavailable(inst) THEN <<>>
    ELSE SortAscending(
             IndexMatches(inst, toLowerCase(trim(text)))
                 \cup SequentialMatches(inst, toLowerCase(trim(text))))

RECURSIVE Concat(_)
Concat(parts) == IF Len(parts) = 0 THEN <<>> ELSE Head(parts) \o Concat(Tail(parts))

MaxContextMatches == 10

\* MMDIndexServer.getContextAroundLines
getContextAroundLines(inst, lineNums, contextLines) ==
    IF Unavailable(inst) \/ Len(lineNums) = 0 THEN <<>>
    ELSE LET used == SliceFirst(lineNums, MaxContextMatches)
             total == Len(inst.lineTexts)
             Start(n) == IF n - contextLines > 0 THEN n - contextLines ELSE 0
             End(n) == IF n + contextLines + 1 < total THEN n + contextLines + 1 ELSE total
             allContextLines ==
                 UNION {Start(used[k])..(End(used[k]) - 1) : k \in 1..Len(used)}
             sortedLines == SortAscending(allContextLines)
         IN  Concat([k \in 1..Len(sortedLines) |-> LineText(inst, sortedLines[k])])

ChapterContextLines == 20

TitlePrefixLen == 20

WithContext(inst, chapter) ==
    [title |-> chapter.title, lineNum |-> chapter.lineNum, page |-> chapter.page,
     context |-> getContextAroundLines(inst, <<chapter.lineNum>>, ChapterContextLines)]

\* the first match of /(\d+)/: the leftmost maximal run of digits, or the
\* empty string when there is none
FirstNumber(s) ==
    LET runs == Runs(s, DigitChars)
    IN  IF Len(runs) = 0 THEN <<>> ELSE SubSeq(s, runs[1][1], runs[1][2])

\* the second loop of findChapter without the test of line 240
RECURSIVE AddByNumberAgain(_, _, _, _)
AddByNumberAgain(inst, results, chapters, num) ==
    IF Len(chapters) = 0 THEN results
    ELSE AddByNumberAgain(inst,
             IF \/ includes(Head(chapters).title, <<"C", "h", "a", "p", "t", "e", "r", " ">> \o num)
                \/ includes(Head(chapters).title, <<"c", "h", "a", "p", "t", "e", "r", " ">> \o num)
             THEN Append(results, WithContext(inst, Head(chapters)))
             ELSE results,
             Tail(chapters), num)

\* the second loop of findChapter: headings naming the chapter number that
\* are not in the results yet
RECURSIVE AddByNumber(_, _, _, _)
AddByNumber(inst, results, chapters, num) ==
    IF Len(chapters) = 0 THEN results
    ELSE LET chapter == Head(chapters)
             named == \/ includes(chapter.title, <<"C", "h", "a", "p", "t", "e", "r", " ">> \o num)
                      \/ includes(chapter.title, <<"c", "h", "a", "p", "t", "e", "r", " ">> \o num)
             found == \E r \in 1..Len(results) : results[r].lineNum = chapter.lineNum
             next == IF named /\ ~found
                     THEN Append(results, WithContext(inst, chapter))
                     ELSE results
         IN  AddByNumber(inst, next, Tail(chapters), num)

\* MMDIndexServer.findChapter
findChapter(inst, query) ==
    IF Unavailable(inst) THEN <<>>
    ELSE LET normalizedQuery == toLowerCase(query)
             bySubstring ==
                 SelectSeq(inst.chapters,
                     LAMBDA ch :
                         \/ includes(toLowerCase(ch.title), normalizedQuery)
                         \/ includes(normalizedQuery,
                                     substring(toLowerCase(ch.title), 0, TitlePrefixLen)))
             results == [k \in 1..Len(bySubstring) |-> WithContext(inst, bySubstring[k])]
             num == FirstNumber(query)
         IN  IF Len(num) > 0 THEN AddByNumber(inst, results, inst.chapters, num) ELSE results

\* MMDIndexServer.getDocumentStructure; the chapters of the result are the
\* instance's own array when the index is available (sharesChapters), a new
\* empty array otherwise
getDocumentStructure(inst) ==
    IF Unavailable(inst)
    THEN [chapters |-> <<>>, totalPages |-> 0, totalLines |-> 0, sharesChapters |-> FALSE]
    ELSE [chapters |-> inst.chapters,
          totalPages |-> Len(inst.linesData.pages),
          totalLines |-> Len(inst.lineTexts),
          sharesChapters |-> TRUE]

\* the loop of getPageForLine: the position in pages of the page whose lines
\* hold lineNum, 0 when the loop ends without returning
RECURSIVE PageScan(_, _, _, _)
PageScan(pages, k, lineNum, currentLine) ==
    IF k > Len(pages) THEN 0
    ELSE IF lineNum < currentLine + Len(pages[k].lines) THEN k
    ELSE PageScan(pages, k + 1, lineNum, currentLine + Len(pages[k].lines))

\* MMDIndexServer.getPageForLine
getPageForLine(inst, lineNum) ==
    IF Unavailable(inst) THEN 1
    ELSE LET pages == inst.linesData.pages
             k == PageScan(pages, 1, lineNum, 0)
         IN  IF k # 0 THEN pages[k].page
             ELSE IF Len(pages) > 0 /\ pages[Len(pages)].page # 0
                  THEN pages[Len(pages)].page
                  ELSE 1

SearchTextMaxLen == 200

SnippetMaxLen == 200

OccurrenceContextLines == 8

OccurrenceContextMaxLen == 1000

\* the records of findAllOccurrencesWithContext with the whole line and the
\* whole window, neither cut to its limit
OccurrenceRecordsUncut(inst, lineNums, maxResults) ==
    LET inRange == SelectSeq(SliceFirst(lineNums, maxResults),
                             LAMBDA n : n >= 0 /\ n < Len(inst.lineTexts))
        Record(n) ==
            [lineNum |-> n,
             text |-> LineText(inst, n),
             page |-> getPageForLine(inst, n),
             context |-> getContextAroundLines(inst, <<n>>, OccurrenceContextLines)]
    IN  [k \in 1..Len(inRange) |-> Record(inRange[k])]

\* findAllOccurrencesWithContext lines 284-298: the records of the first
\* maxResults line numbers that are lines of the document
OccurrenceRecords(inst, lineNums, maxResults) ==
    LET inRange == SelectSeq(SliceFirst(lineNums, maxResults),
                             LAMBDA n : n >= 0 /\ n < Len(inst.lineTexts))
        Record(n) ==
            [lineNum |-> n,
             text |-> substring(LineText(inst, n), 0, SnippetMaxLen),
             page |-> getPageForLine(inst, n),
             context |-> substring(
                 getContextAroundLines(inst, <<n>>, OccurrenceContextLines),
                 0, OccurrenceContextMaxLen)]
    IN  [k \in 1..Len(inRange) |-> Record(inRange[k])]

\* the text searched for when line 280 does not cut it
SearchTextWhole(text) == toLowerCase(trim(text))

\* findAllOccurrencesWithContext line 280: the text searched for
SearchText(text) == toLowerCase(substring(trim(text), 0, SearchTextMaxLen))

\* MMDIndexServer.findAllOccurrencesWithContext
findAllOccurrencesWithContext(inst, text, maxResults) ==
    IF Unavailable(inst) \/ Len(trim(text)) = 0 THEN <<>>
    ELSE OccurrenceRecords(inst, findTextLines(inst, SearchText(text)), maxResults)

(***************************************************************************)
(* Request analysis: the regular expressions of route.ts and of            *)
(* getEnhancedContext                                                      *)
(***************************************************************************)

\* request.match(/\b\w{n,}\b/g): the maximal runs of word characters that
\* are at least n long, in order
WordsOfLength(s, n) ==
    LET runs == Runs(s, WordChars)
        words == [k \in 1..Len(runs) |-> SubSeq(s, runs[k][1], runs[k][2])]
    IN  SelectSeq(words, LAMBDA w : Len(w) >= n)

\* the capture of the first match of /word\s+(\d+)/i in s: the digits, or the
\* empty string when nothing matches
NumberAfter(s, word) ==
    LET lower == toLowerCase(s)
        at == {i \in Positions(s) : NumberStarts(lower, word, i) # {}}
    IN  IF at = {} THEN <<>>
        ELSE LET d == CHOOSE x \in NumberStarts(lower, word, SetMin(at)) : TRUE
                 last == SetMin({j \in (d + 1)..Len(s) :
                                    j = Len(s) \/ s[j + 1] \notin DigitChars})
             IN  SubSeq(s, d + 1, last)

\* request.match(/chapter\s+(\d+)/i)
ChapterNumber(request) == NumberAfter(request, <<"c", "h", "a", "p", "t", "e", "r">>)

\* request.match(/section\s+(\d+)/i)
SectionNumber(request) == NumberAfter(request, <<"s", "e", "c", "t", "i", "o", "n">>)

QuoteChars == {"\"", "'"}

\* request.match(/["']([^"']+)["']/g) with the quotes of each match removed:
\* scanning from the 1-based position pos
RECURSIVE QuotedFrom(_, _)
QuotedFrom(s, pos) ==
    LET openers == {i \in pos..Len(s) : s[i] \in QuoteChars}
        closers == {j \in (SetMin(openers) + 1)..Len(s) : s[j] \in QuoteChars}
    IN  IF openers = {} \/ closers = {} THEN <<>>
        ELSE IF SetMin(closers) = SetMin(openers) + 1
             THEN QuotedFrom(s, SetMin(openers) + 1)
             ELSE <<SubSeq(s, SetMin(openers) + 1, SetMin(closers) - 1)>>
                      \o QuotedFrom(s, SetMin(closers) + 1)

\* w occurs in s between word boundaries: /\bw\b/ for a w of word characters
WordBounded(s, w) ==
    \E i \in Positions(s) :
        /\ MatchesAt(s, w, i)
        /\ (i = 0 \/ s[i] \notin WordChars)
        /\ (i + Len(w) = Len(s) \/ s[i + Len(w) + 1] \notin WordChars)

CommonWords ==
    {<<"t", "h", "e">>, <<"a", "n", "d">>, <<"f", "o", "r">>, <<"a", "r", "e">>, <<"b", "u", "t">>, <<"n", "o", "t">>, <<"y", "o", "u">>, <<"a", "l", "l">>, <<"c", "a", "n">>,
     <<"h", "e", "r">>, <<"w", "a", "s">>, <<"o", "n", "e">>, <<"o", "u", "r">>, <<"o", "u", "t">>, <<"d", "a", "y">>, <<"g", "e", "t">>, <<"h", "a", "s">>, <<"h", "i", "m">>,
     <<"h", "i", "s">>, <<"h", "o", "w">>, <<"i", "t", "s">>, <<"m", "a", "y">>, <<"n", "e", "w">>, <<"n", "o", "w">>, <<"o", "l", "d">>, <<"s", "e", "e">>, <<"t", "w", "o">>,
     <<"w", "a", "y">>, <<"w", "h", "o">>, <<"b", "o", "y">>, <<"d", "i", "d">>, <<"l", "e", "t">>, <<"p", "u", "t">>, <<"s", "a", "y">>, <<"s", "h", "e">>, <<"t", "o", "o">>,
     <<"u", "s", "e">>}

\* extractIntent lines 31-39
extractKeywords(request) ==
    SelectSeq(WordsOfLength(toLowerCase(request), 3),
              LAMBDA w : w \notin CommonWords /\ Len(w) >= 3)

\* extractIntent lines 41-50
detectIntent(request) ==
    LET lower == toLowerCase(request)
        HasWord(ws) == \E w \in ws : WordBounded(lower, w)
    IN  IF HasWord({<<"m", "a", "t", "h">>, <<"e", "q", "u", "a", "t", "i", "o", "n">>, <<"f", "o", "r", "m", "u", "l", "a">>, <<"s", "o", "l", "v", "e">>, <<"c", "a", "l", "c", "u", "l", "a", "t", "e">>,
                <<"c", "o", "m", "p", "u", "t", "e">>, <<"l", "a", "t", "e", "x">>, <<"t", "e", "x">>}) THEN "math"
        ELSE IF HasWord({<<"t", "a", "b", "l", "e">>, <<"r", "o", "w">>, <<"c", "o", "l", "u", "m", "n">>, <<"c", "e", "l", "l">>, <<"h", "e", "a", "d", "e", "r">>}) THEN "table"
        ELSE IF HasWord({<<"c", "h", "a", "p", "t", "e", "r">>, <<"s", "e", "c", "t", "i", "o", "n">>, <<"h", "e", "a", "d", "i", "n", "g">>, <<"t", "i", "t", "l", "e">>}) THEN "chapter"
        ELSE IF HasWord({<<"f", "o", "r", "m", "a", "t">>, <<"s", "t", "y", "l", "e">>, <<"b", "o", "l", "d">>, <<"i", "t", "a", "l", "i", "c">>, <<"u", "n", "d", "e", "r", "l", "i", "n", "e">>,
                     <<"f", "o", "n", "t">>}) THEN "formatting"
        ELSE "general"

\* extractIntent lines 52-63
extractMentions(request) ==
    QuotedFrom(request, 1)
        \o (IF Len(ChapterNumber(request)) > 0
            THEN <<<<"C", "h", "a", "p", "t", "e", "r", " ">> \o ChapterNumber(request)>> ELSE <<>>)
        \o (IF Len(SectionNumber(request)) > 0
            THEN <<<<"S", "e", "c", "t", "i", "o", "n", " ">> \o SectionNumber(request)>> ELSE <<>>)

extractIntent(request) ==
    [keywords |-> extractKeywords(request),
     intent |-> detectIntent(request),
     mentions |-> extractMentions(request)]

\* markdown.split(/\n\n+/): the pieces between runs of two or more newlines
splitBlankLines(s) ==
    LET runs == SelectSeq(Runs(s, {"\n"}), LAMBDA r : r[2] - r[1] >= 1)
        n == Len(runs)
        From(k) == IF k = 1 THEN 1 ELSE runs[k - 1][2] + 1
        To(k) == IF k = n + 1 THEN Len(s) ELSE runs[k][1] - 1
    IN  [k \in 1..(n + 1) |-> SubSeq(s, From(k), To(k))]

\* block.match(new RegExp(escaped keyword, "gi")).length: the matches found
\* left to right without overlap
RECURSIVE CountMatches(_, _)
CountMatches(s, p) ==
    LET i == indexOf(s, p)
    IN  IF Len(p) = 0 THEN Len(s) + 1
        ELSE IF i = -1 THEN 0
        ELSE 1 + CountMatches(SubSeq(s, i + Len(p) + 1, Len(s)), p)

RECURSIVE Sum(_)
Sum(nums) == IF Len(nums) = 0 THEN 0 ELSE Head(nums) + Sum(Tail(nums))

\* findRelevantSections without the sort of line 103
findRelevantSectionsUnsorted(markdown, keywords, maxResults) ==
    LET blocks == splitBlankLines(markdown)
        n == Len(blocks)
        Score(i) ==
            Sum([k \in 1..Len(keywords) |->
                    CountMatches(toLowerCase(blocks[i]), toLowerCase(keywords[k]))])
        scored == SelectSeq([i \in 1..n |-> i], LAMBDA i : Score(i) > 0)
        Text(i) == join(SubSeq(blocks, IF i > 1 THEN i - 1 ELSE 1,
                                       IF i + 1 < n THEN i + 1 ELSE n), <<"\n", "\n">>)
        top == SliceFirst(scored, maxResults)
    IN  [r \in 1..Len(top) |-> Text(top[r])]

\* findRelevantSections
findRelevantSections(markdown, keywords, maxResults) ==
    LET blocks == splitBlankLines(markdown)
        n == Len(blocks)
        Score(i) ==
            Sum([k \in 1..Len(keywords) |->
                    CountMatches(toLowerCase(blocks[i]), toLowerCase(keywords[k]))])
        score == [i \in 1..n |-> Score(i)]
        scored == {i \in 1..n : score[i] > 0}
        Text(i) == join(SubSeq(blocks, IF i > 1 THEN i - 1 ELSE 1,
                                       IF i + 1 < n THEN i + 1 ELSE n), <<"\n", "\n">>)
        \* sections.sort((a, b) => b.score - a.score): stable, so ties keep
        \* the document order
        Before(i, j) == score[i] > score[j] \/ (score[i] = score[j] /\ i < j)
        ranked == [r \in 1..Cardinality(scored) |->
                     CHOOSE i \in scored : Cardinality({j \in scored : Before(j, i)}) = r - 1]
        top == SliceFirst(ranked, maxResults)
    IN  [r \in 1..Len(top) |-> Text(top[r])]

(***************************************************************************)
(* getEnhancedContext, the load gate getMMDIndex, and getRelevantContext   *)
(***************************************************************************)

MaxInfoLength == 1500

MaxChapterNotes == 5

ChapterNoteTitleLen == 60

SelectedTextMaxLen == 500

RareKeywordLimit == 30

RelatedContextMaxLen == 300

RelatedSnippetLen == 150

\* the two UTF-16 code units of the warning sign with its variation selector
WarningSign == <<"U+26A0", "U+FE0F">>

\* getEnhancedContext lines 335-343: the note on the headings found
ChapterNotesFor(chapterNum, chapters) ==
    LET shown == SliceFirst(chapters, MaxChapterNotes)
        Note(ch) == <<"-", " ", "P", "a", "g", "e", " ">> \o numberToString(ch.page) \o <<",", " ", "L", "i", "n", "e", " ">>
                        \o numberToString(ch.lineNum) \o <<":", " ">>
                        \o substring(ch.title, 0, ChapterNoteTitleLen) \o <<"\n">>
    IN  IF Len(chapters) > 0
        THEN <<"\n", "\n", "[", "D", "o", "c", "u", "m", "e", "n", "t", " ", "S", "t", "r", "u", "c", "t", "u", "r", "e", "]", " ", "F", "o", "u", "n", "d", " ">> \o numberToString(Len(chapters))
                 \o <<" ", "o", "c", "c", "u", "r", "r", "e", "n", "c", "e", "(", "s", ")", " ", "o", "f", " ", "C", "h", "a", "p", "t", "e", "r", " ">> \o chapterNum \o <<":", "\n">>
                 \o Concat([k \in 1..Len(shown) |-> Note(shown[k])])
                 \o (IF Len(chapters) > MaxChapterNotes
                     THEN <<".", ".", ".", " ", "a", "n", "d", " ">> \o numberToString(Len(chapters) - MaxChapterNotes)
                              \o <<" ", "m", "o", "r", "e", " ", "o", "c", "c", "u", "r", "r", "e", "n", "c", "e", "(", "s", ")", "\n">>
                     ELSE <<>>)
        ELSE <<>>

\* getEnhancedContext lines 330-344
ChapterNotes(inst, request) ==
    IF Len(ChapterNumber(request)) > 0
    THEN ChapterNotesFor(ChapterNumber(request),
                         findChapter(inst, <<"C", "h", "a", "p", "t", "e", "r", " ">> \o ChapterNumber(request)))
    ELSE <<>>

\* getEnhancedContext lines 349-357: the note on where the selection is
SelectionNotesFor(occurrences, soFar) ==
    LET Where(occ) == <<"-", " ", "P", "a", "g", "e", " ">> \o numberToString(occ.page) \o <<",", " ", "L", "i", "n", "e", " ">>
                          \o numberToString(occ.lineNum) \o <<"\n">>
    IN  IF Len(occurrences) > 0 /\ Len(soFar) < MaxInfoLength
        THEN <<"\n", "\n", "[", "S", "e", "l", "e", "c", "t", "e", "d", " ", "T", "e", "x", "t", " ", "L", "o", "c", "a", "t", "i", "o", "n", "]", " ", "F", "o", "u", "n", "d", " ", "a", "t", ":", "\n">>
                 \o Concat([k \in 1..Len(occurrences) |-> Where(occurrences[k])])
                 \o (IF Len(occurrences) > 1
                     THEN WarningSign \o <<" ", "I", "M", "P", "O", "R", "T", "A", "N", "T", ":", " ", "T", "h", "i", "s", " ", "t", "e", "x", "t", " ", "a", "p", "p", "e", "a", "r", "s", " ">>
                              \o numberToString(Len(occurrences))
                              \o <<" ", "t", "i", "m", "e", "s", ".", " ", "U", "p", "d", "a", "t", "e", " ", "A", "L", "L", " ", "o", "c", "c", "u", "r", "r", "e", "n", "c", "e", "s", ".", "\n">>
                     ELSE <<>>)
        ELSE <<>>

\* getEnhancedContext lines 346-358
WithSelectionNotes(inst, selectedText, soFar) ==
    IF selectedText # Null /\ Len(selectedText) > 0
          /\ Len(trim(selectedText)) < SelectedTextMaxLen
    THEN soFar \o SelectionNotesFor(
                      findAllOccurrencesWithContext(inst, selectedText, 3), soFar)
    ELSE soFar

\* getEnhancedContext lines 366-369: the context of a keyword that occurs,
\* but on fewer than 30 lines
KeywordContextFor(inst, matches) ==
    IF Len(matches) > 0 /\ Len(matches) < RareKeywordLimit
    THEN getContextAroundLines(inst, SliceFirst(matches, 2), 3)
    ELSE <<>>

KeywordContext(inst, keyword) == KeywordContextFor(inst, findTextLines(inst, keyword))

\* getEnhancedContext lines 370-373: the entry of a keyword, the empty string
\* when it gets none
RelatedEntryFor(keyword, context) ==
    IF Len(context) > 0 /\ Len(context) < RelatedContextMaxLen
    THEN keyword \o <<":", " ">> \o substring(context, 0, RelatedSnippetLen) \o <<".", ".", ".">>
    ELSE <<>>

RelatedEntry(inst, keyword) == RelatedEntryFor(keyword, KeywordContext(inst, keyword))

\* getEnhancedContext lines 376-378
RelatedNotesFor(relevantInfo, soFar) ==
    IF Len(relevantInfo) > 0
         /\ Len(soFar) + Len(join(relevantInfo, <<"\n">>)) < MaxInfoLength
    THEN <<"\n", "\n", "[", "R", "e", "l", "a", "t", "e", "d", " ", "C", "o", "n", "t", "e", "n", "t", "]", "\n">> \o join(relevantInfo, <<"\n", "\n">>)
    ELSE <<>>

\* the entries of the first two words of five or more characters; an entry
\* is never empty, so the empty ones are the keywords that got none
RelevantInfo(inst, keywords) ==
    SelectSeq([k \in 1..Len(keywords) |-> RelatedEntry(inst, keywords[k])],
              LAMBDA e : Len(e) > 0)

\* getEnhancedContext lines 360-380
WithRelatedNotes(inst, request, soFar) ==
    IF Len(soFar) < MaxInfoLength
    THEN soFar \o RelatedNotesFor(
                      RelevantInfo(inst, SliceFirst(WordsOfLength(request, 5), 2)), soFar)
    ELSE soFar

\* MMDIndexServer.getEnhancedContext
getEnhancedContext(inst, markdown, selectedText, request) ==
    IF ~inst.loaded THEN <<>>
    ELSE substring(
             WithRelatedNotes(inst, request,
                 WithSelectionNotes(inst, selectedText, ChapterNotes(inst, request))),
             0, MaxInfoLength)

\* the module-level state of mmdIndex.ts with the counts of what one call did:
\* instances constructed, load() calls that reached the file lookup, and
\* buildIndex runs
Gate(inst, loading) ==
    [mmdIndexInstance |-> inst, isLoading |-> loading,
     created |-> 0, attempts |-> 0, builds |-> 0]

\* the module state after a load() call that ended in outcome
AfterCall(m, outcome) ==
    [m EXCEPT !.mmdIndexInstance = outcome.inst,
              !.attempts = @ + outcome.attempts,
              !.builds = @ + outcome.builds]

\* a call of mmdIndexInstance.load()
CallLoad(m, file) == AfterCall(m, load(m.mmdIndexInstance, file))

\* getMMDIndex lines 398-408: the load of a new instance behind isLoading
FirstLoad(fresh, file) ==
    IF ~fresh.isLoading
    THEN [CallLoad([fresh EXCEPT !.isLoading = TRUE], file) EXCEPT !.isLoading = FALSE]
    ELSE fresh

\* getMMDIndex constructing an instance on every call
EnsureInstanceEveryCall(m, file) ==
    FirstLoad([m EXCEPT !.mmdIndexInstance = NewInstance, !.created = @ + 1], file)

\* getMMDIndex lines 395-409
EnsureInstance(m, file) ==
    IF m.mmdIndexInstance = NoInstance
    THEN FirstLoad([m EXCEPT !.mmdIndexInstance = NewInstance, !.created = @ + 1], file)
    ELSE m

\* getMMDIndex lines 410-417
RetryLoad(m, file) ==
    IF ~m.mmdIndexInstance.loaded /\ ~m.isLoading THEN CallLoad(m, file) ELSE m

\* getMMDIndex: the module state after the call, which returns its
\* mmdIndexInstance
getMMDIndex(m, file) == RetryLoad(EnsureInstance(m, file), file)

SelectionRadius == 5000

MentionRadius == 3000

PatternRadius == 2000

ShortContext == 1000

VeryShortContext == 500

TopSections == 3

MaxOccurrences == 3

EnhancedInfoCap == 2000

LocationChangeMarker == <<"\n", "\n", "[", ".", ".", ".", " ", "l", "o", "c", "a", "t", "i", "o", "n", " ", "c", "h", "a", "n", "g", "e", " ", ".", ".", ".", "]", "\n", "\n">>

EllipsisMarker == <<"\n", "\n", "[", ".", ".", ".", "]", "\n", "\n">>

ChapterOccurrenceMarker == <<"\n", "\n", "[", ".", ".", ".", " ", "c", "h", "a", "p", "t", "e", "r", " ", "o", "c", "c", "u", "r", "r", "e", "n", "c", "e", " ", ".", ".", ".", "]", "\n", "\n">>

DocumentContinuesMarker == <<"\n", "\n", "[", ".", ".", ".", " ", "d", "o", "c", "u", "m", "e", "n", "t", " ", "c", "o", "n", "t", "i", "n", "u", "e", "s", " ", ".", ".", ".", "]", "\n", "\n">>

TruncatedMarker == <<"\n", "[", ".", ".", ".", " ", "t", "r", "u", "n", "c", "a", "t", "e", "d", " ", ".", ".", ".", "]">>

\* markdown.substring(max(0, index - radius), min(length, index + len + radius))
Window(markdown, index, len, radius) ==
    substring(markdown,
              IF index - radius > 0 THEN index - radius ELSE 0,
              IF index + len + radius < Len(markdown) THEN index + len + radius
              ELSE Len(markdown))

\* Math.floor(maxChars * 0.7) and Math.floor(maxChars * 0.3)
HeadShare(maxChars) == (maxChars * 7) \div 10

TailShare(maxChars) == (maxChars * 3) \div 10

\* getRelevantContext lines 165-178 without the break of line 174
RECURSIVE AddMentionsPastBudget(_, _, _, _)
AddMentionsPastBudget(context, mentions, markdown, maxChars) ==
    IF Len(mentions) = 0 THEN context
    ELSE LET mention == Head(mentions)
             mentionIndex == indexOf(markdown, mention)
             mentionContext == Window(markdown, mentionIndex, Len(mention), MentionRadius)
         IN  IF mentionIndex # -1 /\ Len(mentionContext) > 0
             THEN AddMentionsPastBudget(
                      (IF Len(context) > 0 THEN context \o EllipsisMarker ELSE <<>>)
                          \o mentionContext,
                      Tail(mentions), markdown, maxChars)
             ELSE AddMentionsPastBudget(context, Tail(mentions), markdown, maxChars)

\* getRelevantContext lines 165-178: the windows of the mentions, with the
\* break once the context is longer than 0.7 * maxChars
RECURSIVE AddMentions(_, _, _, _)
AddMentions(context, mentions, markdown, maxChars) ==
    IF Len(mentions) = 0 THEN context
    ELSE LET mention == Head(mentions)
             mentionIndex == indexOf(markdown, mention)
             mentionContext == Window(markdown, mentionIndex, Len(mention), MentionRadius)
         IN  IF mentionIndex # -1 /\ Len(mentionContext) > 0
             THEN LET next == (IF Len(context) > 0 THEN context \o EllipsisMarker ELSE <<>>)
                                  \o mentionContext
                  IN  IF Len(next) * 10 > maxChars * 7 THEN next
                      ELSE AddMentions(next, Tail(mentions), markdown, maxChars)
             ELSE AddMentions(context, Tail(mentions), markdown, maxChars)

\* /(?:change|update|edit).*(?:chapter|section|title).*(?:to|as)\s+["']?([^"']+)["']?/i
\* matches somewhere in request
IsRenameRequest(request) ==
    LET lower == toLowerCase(request)
        SameLine(a, b) == \A k \in (a + 1)..b : lower[k] # "\n"
        verbs == {<<"c", "h", "a", "n", "g", "e">>, <<"u", "p", "d", "a", "t", "e">>, <<"e", "d", "i", "t">>}
        nouns == {<<"c", "h", "a", "p", "t", "e", "r">>, <<"s", "e", "c", "t", "i", "o", "n">>, <<"t", "i", "t", "l", "e">>}
        preps == {<<"t", "o">>, <<"a", "s">>}
        \* \s+["']?[^"']  at the 0-based position e
        TitleAfter(e) ==
            \E n \in 1..(Len(lower) - e) :
                /\ \A k \in (e + 1)..(e + n) : lower[k] \in Whitespace
                /\ \/ e + n + 1 <= Len(lower) /\ lower[e + n + 1] \notin QuoteChars
                   \/ /\ e + n + 2 <= Len(lower)
                      /\ lower[e + n + 1] \in QuoteChars
                      /\ lower[e + n + 2] \notin QuoteChars
    IN  \E v \in verbs : \E i \in Positions(lower) :
            /\ MatchesAt(lower, v, i)
            /\ \E n \in nouns : \E j \in (i + Len(v))..Len(lower) :
                  /\ MatchesAt(lower, n, j)
                  /\ SameLine(i + Len(v), j)
                  /\ \E p \in preps : \E k \in (j + Len(n))..Len(lower) :
                        /\ MatchesAt(lower, p, k)
                        /\ SameLine(j + Len(n), k)
                        /\ TitleAfter(k + Len(p))

\* markdown.match(/(?:Chapter|chapter)\s*NUM[^\n]*/gi): the matches found left
\* to right from the 1-based position pos
RECURSIVE ChapterLineMatches(_, _, _)
ChapterLineMatches(markdown, num, pos) ==
    LET lower == toLowerCase(markdown)
        Hit(i) ==
            /\ MatchesAt(lower, <<"c", "h", "a", "p", "t", "e", "r">>, i - 1)
            /\ \E d \in (i + 6)..Len(markdown) :
                  /\ \A k \in (i + 7)..d : markdown[k] \in Whitespace
                  /\ MatchesAt(markdown, num, d)
        hits == {i \in pos..Len(markdown) : Hit(i)}
    IN  IF hits = {} THEN <<>>
        ELSE LET i == SetMin(hits)
                 d == CHOOSE x \in (i + 6)..Len(markdown) :
                         /\ \A k \in (i + 7)..x : markdown[k] \in Whitespace
                         /\ MatchesAt(markdown, num, x)
                 afterNum == d + Len(num)
                 stops == {j \in (afterNum + 1)..Len(markdown) : markdown[j] = "\n"}
                 last == IF stops = {} THEN Len(markdown) ELSE SetMin(stops) - 1
             IN  <<SubSeq(markdown, i, last)>> \o ChapterLineMatches(markdown, num, last + 1)

\* getRelevantContext lines 216-251.  The second and third pattern of the
\* source each contain  Chapter\s*NUM , so they match only where the first
\* pattern matches too: the loop always stops at the first pattern or finds
\* nothing with any of them.
AddRenameMatches(context, markdown, request) ==
    LET chapterNum == ChapterNumber(request)
        matches == ChapterLineMatches(markdown, chapterNum, 1)
        Part(match) == Window(markdown, indexOf(markdown, match), Len(match), PatternRadius)
        contextParts == [k \in 1..Len(matches) |-> Part(matches[k])]
    IN  IF IsRenameRequest(request) /\ Len(chapterNum) > 0 /\ Len(matches) > 0
        THEN (IF Len(context) > 0 THEN context \o EllipsisMarker ELSE <<>>)
                 \o join(contextParts, EllipsisMarker)
        ELSE context

(***************************************************************************)
(* getRelevantContext, step by step.  Every step takes and returns the     *)
(* locals of the call: context, enhancedInfo, the module state of          *)
(* mmdIndex.ts (gate), and what the call did: the number of occurrences,   *)
(* the steps it ran, the length the context had when each was entered, and  *)
(* the context the mention loop left (mentioned).                          *)
(***************************************************************************)

\* lines 109-127: the empty context and the annotations of the index
StartContext(m, markdown, selectedText, request) ==
    [context |-> <<>>,
     enhancedInfo |-> IF m.mmdIndexInstance.loaded
                      THEN getEnhancedContext(m.mmdIndexInstance, markdown,
                                              selectedText, request)
                      ELSE <<>>,
     gate |-> m,
     occurrences |-> 0,
     steps |-> <<>>,
     lengths |-> <<>>,
     mentioned |-> <<>>]

\* lines 137-143
WithOccurrences(acc, occurrences) ==
    IF Len(occurrences) > 0
    THEN [acc EXCEPT
            !.context = join([k \in 1..Len(occurrences) |-> occurrences[k].context],
                             LocationChangeMarker),
            !.enhancedInfo =
                IF Len(occurrences) > 1
                THEN @ \o <<"\n", "\n", "I", "M", "P", "O", "R", "T", "A", "N", "T", ":", " ", "T", "h", "e", " ", "s", "e", "l", "e", "c", "t", "e", "d", " ", "t", "e", "x", "t", " ", "a", "p", "p", "e", "a", "r", "s", " ">>
                       \o numberToString(Len(occurrences))
                       \o <<" ", "t", "i", "m", "e", "s", " ", "i", "n", " ", "t", "h", "e", " ", "d", "o", "c", "u", "m", "e", "n", "t", ".", " ", "M", "a", "k", "e", " ", "s", "u", "r", "e", " ", "t", "o", " ", "u", "p", "d", "a", "t", "e", " ", "A", "L", "L", " ", "o", "c", "c", "u", "r", "r", "e", "n", "c", "e", "s", " ", "i", "f", " ", "n", "e", "e", "d", "e", "d", ".">>
                ELSE @,
            !.occurrences = Len(occurrences)]
    ELSE acc

\* lines 134-147
OccurrenceLookup(acc, selectedText) ==
    IF acc.gate.mmdIndexInstance.loaded
    THEN WithOccurrences(acc,
             findAllOccurrencesWithContext(acc.gate.mmdIndexInstance, selectedText,
                                           MaxOccurrences))
    ELSE acc

\* lines 131-150
OccurrenceStep(acc, file, selectedText) ==
    OccurrenceLookup([acc EXCEPT !.gate = getMMDIndex(@, file),
                                 !.steps = Append(@, "occurrences"),
                                 !.lengths = Append(@, Len(acc.context))],
                     selectedText)

\* lines 152-160 with the window starting at the excerpt
SubstringStepFromExcerpt(acc, markdown, selectedText) ==
    IF Len(acc.context) = 0
    THEN [acc EXCEPT
            !.context = IF indexOf(markdown, selectedText) # -1
                        THEN substring(markdown, indexOf(markdown, selectedText),
                                       indexOf(markdown, selectedText)
                                           + Len(selectedText) + SelectionRadius)
                        ELSE @,
            !.steps = Append(@, "substring"),
            !.lengths = Append(@, Len(acc.context))]
    ELSE acc

\* lines 152-160
SubstringStep(acc, markdown, selectedText) ==
    IF Len(acc.context) = 0
    THEN [acc EXCEPT
            !.context = IF indexOf(markdown, selectedText) # -1
                        THEN Window(markdown, indexOf(markdown, selectedText),
                                    Len(selectedText), SelectionRadius)
                        ELSE @,
            !.steps = Append(@, "substring"),
            !.lengths = Append(@, Len(acc.context))]
    ELSE acc

\* lines 164-178
MentionStep(acc, markdown, mentions, maxChars) ==
    IF Len(mentions) > 0
    THEN [acc EXCEPT !.context = AddMentions(@, mentions, markdown, maxChars),
                     !.mentioned = AddMentions(acc.context, mentions, markdown, maxChars),
                     !.steps = Append(@, "mentions"),
                     !.lengths = Append(@, Len(acc.context))]
    ELSE acc

\* lines 191-195
WithChapters(acc, chapterNum, chapters) ==
    IF Len(chapters) > 0
    THEN [acc EXCEPT
            !.context = (IF Len(@) > 0 THEN @ \o EllipsisMarker ELSE <<>>)
                            \o join([k \in 1..Len(chapters) |-> chapters[k].context],
                                    ChapterOccurrenceMarker),
            !.enhancedInfo = @ \o <<"\n", "\n", "F", "o", "u", "n", "d", " ", "C", "h", "a", "p", "t", "e", "r", " ">> \o chapterNum \o <<" ", "a", "t", " ">>
                                 \o numberToString(Len(chapters))
                                 \o <<" ", "l", "o", "c", "a", "t", "i", "o", "n", "(", "s", ")", " ", "i", "n", " ", "t", "h", "e", " ", "d", "o", "c", "u", "m", "e", "n", "t", ".">>]
    ELSE acc

\* lines 185-199
ChapterLookup(acc, chapterNum) ==
    IF acc.gate.mmdIndexInstance.loaded
    THEN WithChapters(acc, chapterNum,
                      findChapter(acc.gate.mmdIndexInstance, <<"C", "h", "a", "p", "t", "e", "r", " ">> \o chapterNum))
    ELSE acc

\* lines 180-204
ChapterStep(acc, file, request) ==
    IF Len(acc.context) < ShortContext /\ Len(ChapterNumber(request)) > 0
    THEN ChapterLookup([acc EXCEPT !.gate = getMMDIndex(@, file),
                                   !.steps = Append(@, "chapters"),
                                   !.lengths = Append(@, Len(acc.context))],
                       ChapterNumber(request))
    ELSE acc

\* lines 210-212
WithSections(acc, relevantSections) ==
    IF Len(relevantSections) > 0
    THEN [acc EXCEPT !.context = join(relevantSections, EllipsisMarker)]
    ELSE acc

\* lines 206-214 without the length test of line 207
KeywordStepAtAnyLength(acc, markdown, keywords) ==
    IF Len(keywords) > 0
    THEN WithSections([acc EXCEPT !.steps = Append(@, "keywords"),
                                  !.lengths = Append(@, Len(acc.context))],
                      findRelevantSections(markdown, keywords, TopSections))
    ELSE acc

\* lines 206-214
KeywordStep(acc, markdown, keywords) ==
    IF Len(acc.context) < ShortContext /\ Len(keywords) > 0
    THEN WithSections([acc EXCEPT !.steps = Append(@, "keywords"),
                                  !.lengths = Append(@, Len(acc.context))],
                      findRelevantSections(markdown, keywords, TopSections))
    ELSE acc

\* lines 216-251
RenameStep(acc, markdown, request) ==
    IF Len(acc.context) < VeryShortContext
    THEN [acc EXCEPT !.context = AddRenameMatches(@, markdown, request),
                     !.steps = Append(@, "rename"),
                     !.lengths = Append(@, Len(acc.context))]
    ELSE acc

\* getRelevantContext without the final fallback of lines 254-263
FallbackStepLeftOut(acc, markdown, maxChars) == acc

\* lines 254-263
FallbackStep(acc, markdown, maxChars) ==
    IF Len(acc.context) = 0
    THEN [acc EXCEPT
            !.context =
                IF Len(markdown) > maxChars
                THEN substring(markdown, 0, HeadShare(maxChars))
                         \o DocumentContinuesMarker
                         \o substringFrom(markdown, Len(markdown) - TailShare(maxChars))
                ELSE markdown,
            !.steps = Append(@, "fallback"),
            !.lengths = Append(@, Len(acc.context))]
    ELSE acc

\* lines 265-275 with a cut that adds no marker
FinalizeWithoutMarker(acc, maxChars) ==
    (IF Len(acc.context) > maxChars
     THEN substring(acc.context, 0, maxChars)
     ELSE acc.context)
        \o (IF Len(acc.enhancedInfo) > 0 /\ Len(acc.enhancedInfo) < EnhancedInfoCap
            THEN acc.enhancedInfo
            ELSE <<>>)

\* lines 265-275 without the length test of line 271
FinalizeWithAllAnnotations(acc, maxChars) ==
    (IF Len(acc.context) > maxChars
     THEN substring(acc.context, 0, maxChars) \o TruncatedMarker
     ELSE acc.context)
        \o acc.enhancedInfo

\* lines 265-275: the returned string
Finalize(acc, maxChars) ==
    (IF Len(acc.context) > maxChars
     THEN substring(acc.context, 0, maxChars) \o TruncatedMarker
     ELSE acc.context)
        \o (IF Len(acc.enhancedInfo) > 0 /\ Len(acc.enhancedInfo) < EnhancedInfoCap
            THEN acc.enhancedInfo
            ELSE <<>>)

\* selectedText && selectedText.trim()
HasSelection(selectedText) ==
    selectedText # Null /\ Len(selectedText) > 0 /\ Len(trim(selectedText)) > 0

\* lines 129-252: the context found before the default strategy
FindContext(acc, file, markdown, selectedText, request, maxChars) ==
    IF HasSelection(selectedText)
    THEN SubstringStep(OccurrenceStep(acc, file, selectedText), markdown, selectedText)
    ELSE RenameStep(
             KeywordStep(
                 ChapterStep(
                     MentionStep(acc, markdown, extractMentions(request), maxChars),
                     file, request),
                 markdown, extractKeywords(request)),
             markdown, request)

\* the locals of getRelevantContext when it returns
Assembled(m, file, markdown, selectedText, request, maxChars) ==
    FallbackStep(
        FindContext(StartContext(getMMDIndex(m, file), markdown, selectedText, request),
                    file, markdown, selectedText, request, maxChars),
        markdown, maxChars)

\* what a call leaves: the returned string (result), the context before the
\* size limit, the annotations, the steps taken and the module state (gate)
Outcome(acc, maxChars) ==
    [result |-> Finalize(acc, maxChars),
     context |-> acc.context,
     enhancedInfo |-> acc.enhancedInfo,
     occurrences |-> acc.occurrences,
     steps |-> acc.steps,
     lengths |-> acc.lengths,
     mentioned |-> acc.mentioned,
     gate |-> acc.gate]

\* getRelevantContext, with m the module state of mmdIndex.ts at the call
\* and file the transcript file
getRelevantContext(m, file, markdown, selectedText, request, maxChars) ==
    Outcome(Assembled(m, file, markdown, selectedText, request, maxChars), maxChars)

(***************************************************************************)
(* The browser's index of the transcript: class MMDIndex and its singleton *)
(* mmdIndex                                                                *)
(***************************************************************************)

\* the MMDIndex field initialisers
NewMMDIndex ==
    [linesData |-> JsonNull,
     textToLinesMap |-> <<>>,
     lineTexts |-> <<>>,
     loaded |-> FALSE]

RECURSIVE MMDIndex_indexWords(_, _, _)
MMDIndex_indexWords(m, words, lineNum) ==
    IF Len(words) = 0 THEN m
    ELSE MMDIndex_indexWords(MapPush(m, Head(words), lineNum, TRUE), Tail(words), lineNum)

\* the body of the inner loop of MMDIndex.buildIndex for one line; threw
\* records the TypeError of reading .trim() of a text that is not a string
MMDIndex_indexLine(acc, lineText) ==
    LET lineNum == Len(acc.lineTexts)
        pushed == [acc EXCEPT !.lineTexts = Append(@, lineText)]
        normalizedText == toLowerCase(trim(lineText))
        withFull == IF Len(normalizedText) > 0
                    THEN MapPush(acc.textToLinesMap, normalizedText, lineNum, TRUE)
                    ELSE acc.textToLinesMap
        words == SelectSeq(splitWhitespace(normalizedText), LAMBDA w : Len(w) > 3)
    IN  IF lineText = Undefined
        THEN [pushed EXCEPT !.threw = TRUE]
        ELSE [pushed EXCEPT !.textToLinesMap = MMDIndex_indexWords(withFull, words, lineNum)]

RECURSIVE MMDIndex_indexLines(_, _)
MMDIndex_indexLines(acc, lines) ==
    IF Len(lines) = 0 \/ acc.threw THEN acc
    ELSE MMDIndex_indexLines(MMDIndex_indexLine(acc, Head(lines).text), Tail(lines))

RECURSIVE MMDIndex_indexPages(_, _)
MMDIndex_indexPages(acc, pages) ==
    IF Len(pages) = 0 \/ acc.threw THEN acc
    ELSE MMDIndex_indexPages(MMDIndex_indexLines(acc, Head(pages).lines), Tail(pages))

\* MMDIndex.buildIndex on an index whose linesData is set; threw tells
\* whether it ended in an exception
MMDIndex_buildIndex(index) ==
    IF index.linesData.kind = "null"
    THEN [index |-> index, threw |-> FALSE]
    ELSE LET built == MMDIndex_indexPages(
                          [lineTexts |-> <<>>, textToLinesMap |-> <<>>,
                           threw |-> index.linesData.kind = "noPages"],
                          index.linesData.pages)
         IN  [index |-> [index EXCEPT !.lineTexts = built.lineTexts,
                                      !.textToLinesMap = built.textToLinesMap],
              threw |-> built.threw]

\* the lines after  this.linesData = await response.json() : loaded is set
\* when buildIndex returns, and the catch block leaves it as it was
MMDIndex_afterBuild(b) == [b.index EXCEPT !.loaded = ~b.threw]

\* MMDIndex.load with file what the server answers for /mmd_lines_data.json
MMDIndex_load(index, file) ==
    IF index.loaded THEN index
    ELSE IF file.kind = "missing" \/ file.kind = "unparseable" THEN index
    ELSE MMDIndex_afterBuild(MMDIndex_buildIndex([index EXCEPT !.linesData = file]))

\* the characters a dot of a regular expression does not match
LineTerminators == {"\n"}

\* the parentheses of a pattern from position i on are balanced, depth being
\* the number of groups open at i
RECURSIVE Balanced(_, _, _)
Balanced(pattern, i, depth) ==
    IF i > Len(pattern) THEN depth = 0
    ELSE IF pattern[i] = "(" THEN Balanced(pattern, i + 1, depth + 1)
    ELSE IF pattern[i] = ")" THEN depth > 0 /\ Balanced(pattern, i + 1, depth - 1)
    ELSE Balanced(pattern, i + 1, depth)

\* new RegExp(pattern, "i") throws a SyntaxError, for a pattern of literal
\* characters, dots and parentheses
RegExpThrows(pattern) == ~Balanced(pattern, 1, 0)

\* regex.test(text) for new RegExp(pattern, "i") with a pattern of literal
\* characters, dots and balanced parentheses: a group matches what its
\* content matches and a dot any character but a line terminator
RegExpTest(pattern, text) ==
    LET p == SelectSeq(pattern, LAMBDA c : c \notin {"(", ")"})
    IN  \E i \in 0..(Len(text) - Len(p)) :
            \A k \in 1..Len(p) :
                IF p[k] = "." THEN text[i + k] \notin LineTerminators
                ELSE toLowerChar(p[k]) = toLowerChar(text[i + k])

\* the records of the lines of the transcript that pass test, with their
\* global line numbers and page numbers
MMDIndex_matchingLines(index, test(_)) ==
    LET pages == index.linesData.pages
        Before(k) == Len(TextsOf(SubSeq(pages, 1, k - 1)))
        OfPage(k) ==
            LET hits == SelectSeq([i \in 1..Len(pages[k].lines) |-> i],
                                  LAMBDA i : test(pages[k].lines[i].text))
            IN  [j \in 1..Len(hits) |->
                    [lineNum |-> Before(k) + hits[j] - 1,
                     text |-> pages[k].lines[hits[j]].text,
                     page |-> pages[k].page]]
    IN  Concat([k \in 1..Len(pages) |-> OfPage(k)])

\* MMDIndex.findAllOccurrences: threw tells that the call ended in the
\* SyntaxError of new RegExp(pattern, "i")
MMDIndex_findAllOccurrences(index, pattern) ==
    IF ~index.loaded \/ index.linesData.kind = "null"
    THEN [threw |-> FALSE, value |-> <<>>]
    ELSE IF RegExpThrows(pattern) THEN [threw |-> TRUE, value |-> <<>>]
    ELSE [threw |-> FALSE,
          value |-> MMDIndex_matchingLines(index, LAMBDA t : RegExpTest(pattern, t))]

(***************************************************************************)
(* The markdown store of the browser (useMarkdownStore)                    *)
(***************************************************************************)

\* the state the store is created with
InitialStore == [markdown |-> <<>>, history |-> <<>>, historyIndex |-> -1]

\* Array.prototype.slice(0, end) for any integer end
SliceTo(seq, end) ==
    IF end < 0
    THEN SubSeq(seq, 1, IF Len(seq) + end > 0 THEN Len(seq) + end ELSE 0)
    ELSE SliceFirst(seq, end)

\* history[i] for a 0-based i
HistoryAt(history, i) == IF i >= 0 /\ i < Len(history) THEN history[i + 1] ELSE Undefined

\* setMarkdown that replaces the text and leaves the history alone
setMarkdownOutsideHistory(s, newMd) == [s EXCEPT !.markdown = newMd]

\* setMarkdown that appends to the whole history, without the slice of line 366
setMarkdownAfterAll(s, newMd) ==
    [markdown |-> newMd, history |-> Append(s.history, newMd),
     historyIndex |-> Len(s.history)]

setMarkdown(s, newMd) ==
    LET newHistory == Append(SliceTo(s.history, s.historyIndex + 1), newMd)
    IN  [markdown |-> newMd, history |-> newHistory, historyIndex |-> Len(newHistory) - 1]

canUndo(s) == s.historyIndex > 0

canRedo(s) == s.historyIndex < Len(s.history) - 1

undo(s) ==
    IF s.historyIndex > 0
    THEN [s EXCEPT !.markdown = HistoryAt(s.history, s.historyIndex - 1),
                   !.historyIndex = s.historyIndex - 1]
    ELSE s

redo(s) ==
    IF s.historyIndex < Len(s.history) - 1
    THEN [s EXCEPT !.markdown = HistoryAt(s.history, s.historyIndex + 1),
                   !.historyIndex = s.historyIndex + 1]
    ELSE s

WelcomeText == <<"#", " ", "W", "e", "l", "c", "o", "m", "e", "\n", "\n", "P", "a", "s", "t", "e", " ", "y", "o", "u", "r", " ", "m", "a", "r", "k", "d", "o", "w", "n", " ", "h", "e", "r", "e", ".">>

\* what fetch("/manual.mmd") can meet: an answer that is not ok or a failed
\* request, and an answer with the text of the manual
ManualMissing == [ok |-> FALSE, text |-> <<>>]

Manual(text) == [ok |-> TRUE, text |-> text]

\* loadMarkdown: the store holds the fetched text, or the welcome text when
\* the fetch failed, as the only entry of its history
loadMarkdown(s, response) ==
    IF response.ok
    THEN [markdown |-> response.text, history |-> <<response.text>>, historyIndex |-> 0]
    ELSE [markdown |-> WelcomeText, history |-> <<WelcomeText>>, historyIndex |-> 0]


(***************************************************************************)
(* The chat of the browser (useChat): the React state messages, isLoading  *)
(* and streamingResponse, and the submitMessage calls made so far, each at *)
(* the await it has reached (fetch, errorBody, read), returned, or ignored  *)
(* for its blank message                                                   *)
(***************************************************************************)

\* the useState initial values, and no call made
InitialChat ==
    [messages |-> <<>>, isLoading |-> FALSE, streamingResponse |-> <<>>, calls |-> <<>>]

ChatMessage(role, content, proposal) ==
    [role |-> role, content |-> content, proposal |-> proposal]

\* extractProposal for a text without brace: the two fence patterns need a
\* grave accent, which no text here holds, and the third needs a brace, so
\* none matches and the loop ends with null; of a text with a brace the
\* proposal is not modelled
extractProposal(text) ==
    IF includes(text, <<"{">>) THEN <<"proposal">> ELSE Null

\* the content of the assistant message of the catch block
ErrorContent(errorMessage) ==
    <<"E", "r", "r", "o", "r", ":", " ">> \o errorMessage
        \o <<"\n", "\n", "T", "i", "p", "s", ":", "\n", "-", " ", "I", "f", " ", "t", "h", "e", " ", "d", "o", "c", "u", "m", "e", "n", "t", " ", "i", "s", " ", "v", "e", "r", "y", " ", "l", "a", "r", "g", "e", ",", " ", "t", "r", "y", " ", "s", "e", "l", "e", "c", "t", "i", "n", "g", " ", "a", " ", "s", "p", "e", "c", "i", "f", "i", "c", " ", "s", "e", "c", "t", "i", "o", "n", " ", "t", "o", " ", "e", "d", "i", "t", "\n", "-", " ", "C", "h", "e", "c", "k", " ", "t", "h", "a", "t", " ", "y", "o", "u", "r", " ", "O", "p", "e", "n", "A", "I", " ", "A", "P", "I", " ", "k", "e", "y", " ", "i", "s", " ", "c", "o", "n", "f", "i", "g", "u", "r", "e", "d", " ", "c", "o", "r", "r", "e", "c", "t", "l", "y", "\n", "-", " ", "T", "h", "e", " ", "r", "e", "q", "u", "e", "s", "t", " ", "m", "a", "y", " ", "b", "e", " ", "t", "o", "o", " ", "l", "a", "r", "g", "e", " ", "-", " ", "t", "r", "y", " ", "a", " ", "m", "o", "r", "e", " ", "f", "o", "c", "u", "s", "e", "d", " ", "e", "d", "i", "t", " ", "r", "e", "q", "u", "e", "s", "t">>

\* a submitMessage call at an await, returned, or ignored
ChatCall(pc, fullResponse, chunks) ==
    [pc |-> pc, fullResponse |-> fullResponse, chunks |-> chunks]

\* the finally block, lines 145-148
Finally(c) == [c EXCEPT !.isLoading = FALSE, !.streamingResponse = <<>>]

\* submitMessage lines 54-61: up to the await of fetch
submitMessage(c, message) ==
    IF Len(trim(message)) = 0
    THEN [c EXCEPT !.calls = Append(@, ChatCall("ignored", <<>>, 0))]
    ELSE [c EXCEPT !.isLoading = TRUE,
                   !.streamingResponse = <<>>,
                   !.messages = Append(@, ChatMessage("user", trim(message), Undefined)),
                   !.calls = Append(@, ChatCall("fetch", <<>>, 0))]

\* lines 131-148: the catch block and the finally block of call k
Failed(c, k, errorMessage) ==
    Finally([c EXCEPT !.messages = Append(@, ChatMessage("assistant",
                                                         ErrorContent(errorMessage),
                                                         Null)),
                      !.calls[k].pc = "returned"])

\* lines 71-74: the response is not ok and its body is awaited
ResponseNotOk(c, k) == [c EXCEPT !.calls[k].pc = "errorBody"]

\* lines 82-92: the response is ok; without a body the call throws, with one
\* it awaits the first read
ResponseOk(c, k, hasBody) ==
    IF hasBody THEN [c EXCEPT !.calls[k].pc = "read"]
    ELSE Failed(c, k, <<"N", "o", " ", "r", "e", "s", "p", "o", "n", "s", "e", " ", "b", "o", "d", "y">>)

\* lines 95-117 for a chunk that completes one line with the given delta
\* content (empty for "[DONE]", for a line that is no data line and for one
\* that does not parse), then the next read is awaited
ReadChunk(c, k, content) ==
    IF Len(content) > 0
    THEN [c EXCEPT !.calls[k].fullResponse = @ \o content,
                   !.calls[k].chunks = @ + 1,
                   !.streamingResponse = c.calls[k].fullResponse \o content]
    ELSE [c EXCEPT !.calls[k].chunks = @ + 1]

\* lines 93, 119-130 and 145-148: the stream is done
ReadDone(c, k) ==
    Finally([c EXCEPT !.messages =
                          Append(@, ChatMessage("assistant", c.calls[k].fullResponse,
                                                extractProposal(c.calls[k].fullResponse))),
                      !.streamingResponse = <<>>,
                      !.calls[k].pc = "returned"])
(***************************************************************************)
(* Inputs                                                                  *)
(***************************************************************************)

\* a transcript with two headings, the line "Alpha beta" twice and a third
\* line sharing its first word
DocA ==
    LinesData(<<Page(1, <<<<"\\", "s", "e", "c", "t", "i", "o", "n", "*", "{", "C", "h", "a", "p", "t", "e", "r", " ", "3", ":", " ", "O", "r", "i", "g", "i", "n", "s", "}", "\n">>, <<"A", "l", "p", "h", "a", " ", "b", "e", "t", "a", "\n">>,
                          <<"a", "l", "p", "h", "a", " ", "g", "a", "m", "m", "a", "\n">>>>),
                Page(2, <<<<"A", "l", "p", "h", "a", " ", "b", "e", "t", "a", "\n">>, <<"#", " ", "C", "h", "a", "p", "t", "e", "r", " ", "1", "2", "\n">>>>)>>)

\* a transcript of short words, none of them long enough for a word key
DocB == LinesData(<<Page(1, <<<<"a", "b", " ", "c", "d", " ", "e", "f", "\n">>, <<"x", "y", "z", "\n">>>>), Page(3, <<<<"a", "b", " ", "c", "d", "\n">>>>)>>)

\* a transcript whose second line has no text
DocBad == LinesData(<<Page(1, <<<<"I", "n", "t", "r", "o", " ", "t", "e", "x", "t", "\n">>, Undefined>>)>>)

DocEmpty == LinesData(<<>>)

Files == {FileMissing, FileUnparseable, JsonNull, JsonNoPages, DocA, DocB, DocBad, DocEmpty}

MaxFragmentLen == 3

\* every piece of s that is 1 to n characters long
Pieces(s, n) ==
    UNION {{SubSeq(s, i, j) : j \in i..(IF i + n - 1 < Len(s) THEN i + n - 1 ELSE Len(s))} :
              i \in 1..Len(s)}

Fragments ==
    Pieces(Concat(TextsOf(DocA.pages)), MaxFragmentLen)
        \cup Pieces(Concat(TextsOf(DocB.pages)), MaxFragmentLen)
        \cup {<<>>, <<" ">>, <<"A", "l", "p", "h", "a", " ", "b", "e", "t", "a">>, <<" ", " ", "A", "L", "P", "H", "A", " ", "B", "e", "t", "a", " ", "\n">>, <<" ", "A", "B", " ", "c", "d", "\n">>, <<"a", "l", "p", "h", "a">>, <<"b", "e", "t", "a", " ", "a", "l", "p", "h", "a">>,
              <<"a", "b", " ", "c", "d">>, <<"C", "h", "a", "p", "t", "e", "r", " ", "3">>, <<"g", "a", "m", "m", "a", "\n", "A", "l", "p", "h", "a">>, <<"z", "z", "z", "z">>}

MarkdownA == Concat(TextsOf(DocA.pages))

MarkdownB == <<"I", "n", "t", "r", "o", " ", "t", "e", "x", "t", "\n", "\n", "A", "l", "p", "h", "a", " ", "b", "e", "t", "a", " ", "h", "e", "r", "e", "\n", "\n", "C", "h", "a", "p", "t", "e", "r", " ", "3", " ", "o", "m", "e", "g", "a", "\n", "\n", "t", "h", "e", " ", "e", "n", "d">>

Markdowns == {MarkdownA, MarkdownB}

Selections == {Null, <<"A", "l", "p", "h", "a", " ", "b", "e", "t", "a">>, <<"a", "b", " ", "c", "d">>, <<"g", "a", "m", "m", "a", "\n", "A", "l", "p", "h", "a">>, <<"z", "z", "z", "z">>, <<" ">>}

Requests ==
    {<<>>, <<"f", "i", "x", " ", "C", "h", "a", "p", "t", "e", "r", " ", "3">>, <<"c", "h", "a", "n", "g", "e", " ", "c", "h", "a", "p", "t", "e", "r", " ", "3", " ", "t", "i", "t", "l", "e", " ", "t", "o", " ", "D", "a", "w", "n">>,
     <<"u", "p", "d", "a", "t", "e", " ", "'", "A", "l", "p", "h", "a", " ", "b", "e", "t", "a", "'", " ", "n", "o", "w">>, <<"e", "x", "p", "l", "a", "i", "n", " ", "o", "m", "e", "g", "a">>, <<"z", "z", "z", "z">>}

DefaultMaxChars == 25000

Budgets == {10, 40, DefaultMaxChars}

Queries == {<<"C", "h", "a", "p", "t", "e", "r", " ", "3">>, <<"3">>, <<"o", "r", "i", "g", "i", "n", "s">>, <<"C", "h", "a", "p", "t", "e", "r", " ", "1", "2">>, <<"z", "z", "z", "z">>}

(***************************************************************************)
(* The state machine: the transcript file, the module state of mmdIndex.ts, *)
(* the call in progress, and in the browser the index singleton, the        *)
(* markdown store, the last calls that changed the store, and the chat      *)
(***************************************************************************)

VARIABLES file, mmdIndexInstance, isLoading, lastCall, mmdIndex, store, storeCalls, chat

vars == <<file, mmdIndexInstance, isLoading, lastCall, mmdIndex, store, storeCalls, chat>>

\* the state of the browser, which no code of the server touches
browser == <<mmdIndex, store, storeCalls, chat>>

\* the browser when the page has been opened and nothing loaded
InitBrowser ==
    /\ mmdIndex = NewMMDIndex
    /\ store = InitialStore
    /\ storeCalls = <<>>
    /\ chat = InitialChat

NoCall == [op |-> "none", args |-> <<>>, result |-> <<>>,
           created |-> 0, attempts |-> 0, builds |-> 0]

\* the record of a query method's call, which touches no module state
QueryCall(op, args, result) ==
    [op |-> op, args |-> args, result |-> result,
     created |-> 0, attempts |-> 0, builds |-> 0]

\* the record of a call that went through the load gate and ended in m
GateCall(op, args, result, m) ==
    [op |-> op, args |-> args, result |-> result,
     created |-> m.created, attempts |-> m.attempts, builds |-> m.builds]

Init ==
    /\ file \in Files
    /\ mmdIndexInstance = NoInstance
    /\ isLoading = FALSE
    /\ lastCall = NoCall
    /\ InitBrowser

Idle == lastCall.op = "none"

HasInstance == mmdIndexInstance # NoInstance

\* the environment replaces, removes or corrupts the transcript file
WriteFile ==
    /\ Idle
    /\ \E f \in Files \ {file} : file' = f
    /\ UNCHANGED <<mmdIndexInstance, isLoading, lastCall, browser>>

\* the action of a call through the load gate that ends in the module state m
Leaves(op, m) ==
    /\ mmdIndexInstance' = m.mmdIndexInstance
    /\ isLoading' = m.isLoading
    /\ lastCall' = GateCall(op, <<>>, <<>>, m)

GetMMDIndex ==
    /\ Idle
    /\ Leaves("getMMDIndex", getMMDIndex(Gate(mmdIndexInstance, isLoading), file))
    /\ UNCHANGED <<file, browser>>

\* load() called on the instance a caller holds
Load ==
    /\ Idle
    /\ HasInstance
    /\ Leaves("load", CallLoad(Gate(mmdIndexInstance, isLoading), file))
    /\ UNCHANGED <<file, browser>>

IsLoaded ==
    /\ Idle
    /\ HasInstance
    /\ lastCall' = QueryCall("isLoaded", <<>>, mmdIndexInstance.loaded)
    /\ UNCHANGED <<file, mmdIndexInstance, isLoading, browser>>

FindTextLines ==
    /\ Idle
    /\ HasInstance
    /\ \E text \in Fragments :
          lastCall' = QueryCall("findTextLines", <<text>>,
                                findTextLines(mmdIndexInstance, text))
    /\ UNCHANGED <<file, mmdIndexInstance, isLoading, browser>>

LineNumLists == {<<>>, <<0>>, <<1, 3>>, <<4>>, <<2, 2>>}

Radii == {0, 1, OccurrenceContextLines}

GetContextAroundLines ==
    /\ Idle
    /\ HasInstance
    /\ \E lineNums \in LineNumLists, contextLines \in Radii :
          lastCall' = QueryCall("getContextAroundLines", <<lineNums, contextLines>>,
                                getContextAroundLines(mmdIndexInstance, lineNums,
                                                      contextLines))
    /\ UNCHANGED <<file, mmdIndexInstance, isLoading, browser>>

FindChapter ==
    /\ Idle
    /\ HasInstance
    /\ \E query \in Queries :
          lastCall' = QueryCall("findChapter", <<query>>,
                                findChapter(mmdIndexInstance, query))
    /\ UNCHANGED <<file, mmdIndexInstance, isLoading, browser>>

GetDocumentStructure ==
    /\ Idle
    /\ HasInstance
    /\ lastCall' = QueryCall("getDocumentStructure", <<>>,
                             getDocumentStructure(mmdIndexInstance))
    /\ UNCHANGED <<file, mmdIndexInstance, isLoading, browser>>

FindAllOccurrencesWithContext ==
    /\ Idle
    /\ HasInstance
    /\ \E text \in Selections \ {Null}, maxResults \in {1, MaxOccurrences, 5} :
          lastCall' = QueryCall("findAllOccurrencesWithContext", <<text, maxResults>>,
                                findAllOccurrencesWithContext(mmdIndexInstance, text,
                                                              maxResults))
    /\ UNCHANGED <<file, mmdIndexInstance, isLoading, browser>>

MaxLineNum == 5

GetPageForLine ==
    /\ Idle
    /\ HasInstance
    /\ \E lineNum \in 0..MaxLineNum :
          lastCall' = QueryCall("getPageForLine", <<lineNum>>,
                                getPageForLine(mmdIndexInstance, lineNum))
    /\ UNCHANGED <<file, mmdIndexInstance, isLoading, browser>>

GetEnhancedContext ==
    /\ Idle
    /\ HasInstance
    /\ \E markdown \in Markdowns, selectedText \in Selections, request \in Requests :
          lastCall' = QueryCall("getEnhancedContext", <<markdown, selectedText, request>>,
                                getEnhancedContext(mmdIndexInstance, markdown,
                                                   selectedText, request))
    /\ UNCHANGED <<file, mmdIndexInstance, isLoading, browser>>

\* the outcome of a call without the module state, which the variables hold
Returned(r) ==
    [result |-> r.result, context |-> r.context, enhancedInfo |-> r.enhancedInfo,
     occurrences |-> r.occurrences, steps |-> r.steps, lengths |-> r.lengths,
     mentioned |-> r.mentioned]

\* the action of a getRelevantContext call that ends in r
Returns(r, args) ==
    /\ mmdIndexInstance' = r.gate.mmdIndexInstance
    /\ isLoading' = r.gate.isLoading
    /\ lastCall' = GateCall("getRelevantContext", args, Returned(r), r.gate)

GetRelevantContext ==
    /\ Idle
    /\ \E markdown \in Markdowns, selectedText \in Selections, request \in Requests,
          maxChars \in Budgets :
          Returns(getRelevantContext(Gate(mmdIndexInstance, isLoading), file,
                                     markdown, selectedText, request, maxChars),
                  <<markdown, selectedText, request, maxChars>>)
    /\ UNCHANGED <<file, browser>>

\* the call has returned and its caller has taken the result
Return ==
    /\ ~Idle
    /\ lastCall' = NoCall
    /\ UNCHANGED <<file, mmdIndexInstance, isLoading, browser>>

Next ==
    \/ WriteFile
    \/ GetMMDIndex
    \/ Load
    \/ IsLoaded
    \/ FindTextLines
    \/ GetContextAroundLines
    \/ FindChapter
    \/ GetDocumentStructure
    \/ FindAllOccurrencesWithContext
    \/ GetPageForLine
    \/ GetEnhancedContext
    \/ GetRelevantContext
    \/ Return

Spec == Init /\ [][Next]_vars

(***************************************************************************)
(* A caller that writes through what getDocumentStructure returned         *)
(***************************************************************************)

\* the chapters of the structure the current call returned are the
\* instance's own array
HoldsChapters ==
    /\ lastCall.op = "getDocumentStructure"
    /\ lastCall.result.sharesChapters

\* the caller removes the last entry of the chapters array it was handed
\* (structure.chapters.pop()); the array is the instance's, so the entry is
\* gone from both
CallerPopsChapter ==
    /\ HoldsChapters
    /\ Len(lastCall.result.chapters) > 0
    /\ mmdIndexInstance' =
           [mmdIndexInstance EXCEPT !.chapters = SubSeq(@, 1, Len(@) - 1)]
    /\ lastCall' = [lastCall EXCEPT !.result.chapters = SubSeq(@, 1, Len(@) - 1)]
    /\ UNCHANGED <<file, isLoading, browser>>

NextWithCaller ==
    \/ Next
    \/ CallerPopsChapter

SpecCaller == Init /\ [][NextWithCaller]_vars

(***************************************************************************)
(* Properties                                                              *)
(***************************************************************************)

Called(op) == lastCall.op = op

\* isLoaded() of the singleton
Loaded == HasInstance /\ mmdIndexInstance.loaded

\* the lines of the transcript the index was loaded from, in document order
DocumentLines ==
    IF Loaded /\ mmdIndexInstance.linesData.kind = "object"
    THEN TextsOf(mmdIndexInstance.linesData.pages)
    ELSE <<>>

\* the 0-based numbers of the transcript's lines that satisfy P
LinesWhere(P(_)) == {n \in 0..(Len(DocumentLines) - 1) : P(DocumentLines[n + 1])}

StrictlyAscending(seq) == \A i \in 1..(Len(seq) - 1) : seq[i] < seq[i + 1]

\* the number of places where p occurs in s
CountOf(s, p) == Cardinality({i \in 0..(Len(s) - Len(p)) : MatchesAt(s, p, i)})

\* the file is one whose load fails: it is missing, is not JSON, has no
\* pages to iterate, or has a line without text
LoadFails(f) ==
    \/ f.kind \in {"missing", "unparseable", "noPages"}
    \/ /\ f.kind = "object"
       /\ \E i \in 1..Len(TextsOf(f.pages)) : TextsOf(f.pages)[i] = Undefined

\* the arguments and the outcome of the getRelevantContext call in progress
CallMarkdown == lastCall.args[1]

CallSelectedText == lastCall.args[2]

CallRequest == lastCall.args[3]

CallMaxChars == lastCall.args[4]

CallResult == lastCall.result.result

\* C1: for a loaded index and any fragment, findTextLines returns line
\* numbers in strictly ascending order (so without duplicates), and every
\* line of the transcript whose lowercased text contains the trimmed,
\* lowercased fragment is in the result.
C1_LocateLinesSortedAndComplete ==
    (Called("findTextLines") /\ Loaded) =>
        /\ StrictlyAscending(lastCall.result)
        /\ LinesWhere(LAMBDA t : includes(toLowerCase(t), toLowerCase(trim(lastCall.args[1]))))
               \subseteq Elements(lastCall.result)

\* a fragment with surrounding whitespace and other letter case whose lines
\* the result lists in order, the first of them found only by the search of
\* the lines ("ab cd ef" holds no word long enough for a key)
C1_Witness ==
    /\ Called("findTextLines")
    /\ Loaded
    /\ lastCall.args[1] = <<" ", "A", "B", " ", "c", "d", "\n">>
    /\ lastCall.result = <<0, 2>>

\* C2 as stated: for a loaded index, every non-empty fragment that is a
\* verbatim substring of the document text (the line texts in document order,
\* joined) has a non-empty findTextLines result.
C2_SubstringOfDocumentFound ==
    (/\ Called("findTextLines")
     /\ Loaded
     /\ Len(lastCall.args[1]) > 0
     /\ includes(Concat(DocumentLines), lastCall.args[1]))
        => Len(lastCall.result) > 0

\* C2 amended: for a loaded index, every non-empty fragment that is a
\* verbatim substring of the text of one line (it does not run across a line
\* boundary) has a findTextLines result that holds every such line.
C2_SubstringOfLineFound ==
    (/\ Called("findTextLines")
     /\ Loaded
     /\ Len(lastCall.args[1]) > 0
     /\ LinesWhere(LAMBDA t : includes(t, lastCall.args[1])) # {})
        => /\ Len(lastCall.result) > 0
           /\ LinesWhere(LAMBDA t : includes(t, lastCall.args[1]))
                  \subseteq Elements(lastCall.result)

\* a capitalised piece of a line, in no key of the token map, is found in
\* the two lines that hold it (and in the line that holds it in lower case)
C2_Witness ==
    /\ Called("findTextLines")
    /\ Loaded
    /\ lastCall.args[1] = <<"A", "l", "p">>
    /\ lastCall.result = <<1, 2, 3>>

\* the transcript the index holds has exactly two lines that contain the
\* excerpt of the call
ExcerptInTwoLines ==
    Cardinality(LinesWhere(LAMBDA t : includes(t, CallSelectedText))) = 2

\* C3: given a loaded index and an excerpt that occurs in exactly two lines
\* of the document, the text getRelevantContext returns contains the location
\* change marker exactly once and its annotation states that the text
\* appears 2 times.
C3_TwoOccurrencesOneMarker ==
    (/\ Called("getRelevantContext")
     /\ Loaded
     /\ HasSelection(CallSelectedText)
     /\ CallMaxChars = DefaultMaxChars
     /\ ExcerptInTwoLines)
        => /\ CountOf(CallResult, <<"[", ".", ".", ".", " ", "l", "o", "c", "a", "t", "i", "o", "n", " ", "c", "h", "a", "n", "g", "e", " ", ".", ".", ".", "]">>) = 1
           /\ includes(CallResult, <<"T", "h", "e", " ", "s", "e", "l", "e", "c", "t", "e", "d", " ", "t", "e", "x", "t", " ", "a", "p", "p", "e", "a", "r", "s", " ", "2", " ", "t", "i", "m", "e", "s">>)

\* C4: for every document, excerpt, instruction and budget the text
\* getRelevantContext returns is at most maxChars long.
C4_ResultWithinBudget ==
    Called("getRelevantContext") => Len(CallResult) <= CallMaxChars

\* C5: with an empty instruction and no excerpt, getRelevantContext returns
\* non-empty text for a non-empty document; when the document is longer than
\* the budget the text is the first floor(0.7 * budget) characters, the
\* document continues marker and the last floor(0.3 * budget) characters,
\* and it is at most budget long.
C5_FallbackHeadAndTail ==
    (/\ Called("getRelevantContext")
     /\ CallRequest = <<>>
     /\ CallSelectedText = Null
     /\ Len(CallMarkdown) > 0)
        => /\ Len(CallResult) > 0
           /\ Len(CallMarkdown) > CallMaxChars =>
                  /\ CallResult =
                         substring(CallMarkdown, 0, (7 * CallMaxChars) \div 10)
                             \o <<"\n", "\n", "[", ".", ".", ".", " ", "d", "o", "c", "u", "m", "e", "n", "t", " ", "c", "o", "n", "t", "i", "n", "u", "e", "s", " ", ".", ".", ".", "]", "\n", "\n">>
                             \o substringFrom(CallMarkdown,
                                    Len(CallMarkdown) - (3 * CallMaxChars) \div 10)
                  /\ Len(CallResult) <= CallMaxChars

\* C6: for any non-empty document and any excerpt, instruction and index
\* state (loaded, unloaded or failed), getRelevantContext returns a non-empty
\* string; an exception thrown while the index loads inside the call is
\* caught there and the call still returns.
C6_ContextNeverEmpty ==
    (Called("getRelevantContext") /\ Len(CallMarkdown) > 0) => Len(CallResult) > 0

\* a call during which the load ran and failed in buildIndex, leaving the
\* index unloaded, found nothing for the instruction and returned the whole
\* document
C6_Witness ==
    /\ Called("getRelevantContext")
    /\ lastCall.builds > 0
    /\ ~Loaded
    /\ lastCall.result.steps = <<"rename", "fallback">>
    /\ CallResult = CallMarkdown
    /\ Len(CallResult) > 0

\* C7: once a load has succeeded, no later getMMDIndex, load or other call
\* constructs an instance or runs buildIndex, and the singleton with its line
\* store, token map and heading list stays as it is.
C7_BuiltOnce ==
    [][Loaded =>
          /\ lastCall'.created = 0
          /\ lastCall'.builds = 0
          /\ mmdIndexInstance' = mmdIndexInstance]_vars

\* getMMDIndex was called on a loaded index after the transcript file was
\* replaced by another transcript: nothing was built and the index still
\* holds the first transcript
C7_Witness ==
    /\ Called("getMMDIndex")
    /\ Loaded
    /\ lastCall.created = 0
    /\ lastCall.attempts = 0
    /\ lastCall.builds = 0
    /\ file = DocB
    /\ mmdIndexInstance.linesData = DocA
    /\ mmdIndexInstance.lineTexts = TextsOf(DocA.pages)

\* every query method gives its empty value on the singleton as it is
QueriesAnswerEmpty ==
    /\ \A text \in Fragments : findTextLines(mmdIndexInstance, text) = <<>>
    /\ \A text \in Selections \ {Null}, maxResults \in {1, MaxOccurrences} :
          findAllOccurrencesWithContext(mmdIndexInstance, text, maxResults) = <<>>
    /\ \A query \in Queries : findChapter(mmdIndexInstance, query) = <<>>
    /\ \A lineNums \in LineNumLists, contextLines \in Radii :
          getContextAroundLines(mmdIndexInstance, lineNums, contextLines) = <<>>
    /\ getDocumentStructure(mmdIndexInstance).chapters = <<>>
    /\ getDocumentStructure(mmdIndexInstance).totalPages = 0
    /\ getDocumentStructure(mmdIndexInstance).totalLines = 0
    /\ \A markdown \in Markdowns, selectedText \in Selections, request \in Requests :
          getEnhancedContext(mmdIndexInstance, markdown, selectedText, request) = <<>>

\* C8: when a call attempted the load and the file was missing, unparseable
\* or malformed, the index is unloaded afterwards, every query method returns
\* its empty value, and a getMMDIndex call made now attempts the load again.
C8_FailedLoadDegrades ==
    (/\ lastCall.op \in {"getMMDIndex", "load", "getRelevantContext"}
     /\ lastCall.attempts > 0
     /\ LoadFails(file))
        => /\ ~Loaded
           /\ HasInstance
           /\ QueriesAnswerEmpty
           /\ getMMDIndex(Gate(mmdIndexInstance, isLoading), file).attempts > 0

\* a load that threw in buildIndex after the first line had been stored: the
\* line store is not empty and the index is unloaded
C8_Witness ==
    /\ Called("getMMDIndex")
    /\ lastCall.builds > 0
    /\ file = DocBad
    /\ ~Loaded
    /\ Len(mmdIndexInstance.lineTexts) > 0

\* the heading list buildIndex makes of the transcript the index holds
ChaptersAsBuilt == buildIndex([NewInstance EXCEPT !.linesData = mmdIndexInstance.linesData]).inst.chapters

\* C9: after a successful build the heading list stays as the build left it:
\* no query method changes it, and none hands a caller a reference through
\* which the caller can.
C9_StructuresStayAsBuilt ==
    (Loaded /\ mmdIndexInstance.linesData.kind = "object") =>
        mmdIndexInstance.chapters = ChaptersAsBuilt

\* C10 as stated: a getRelevantContext call does not change the index
\* singleton or its load gate.
C10_CallLeavesSingleton ==
    [][Called("getRelevantContext")' =>
          /\ mmdIndexInstance' = mmdIndexInstance
          /\ isLoading' = isLoading]_vars

\* C10 amended: once the index is loaded, a getRelevantContext call
\* constructs no instance, makes no load attempt (it does not read the
\* transcript file), runs no build and leaves the singleton and its load gate
\* as they are.
C10_CallOnLoadedIndexLeavesSingleton ==
    [][(Loaded /\ Called("getRelevantContext")') =>
          /\ lastCall'.created = 0
          /\ lastCall'.attempts = 0
          /\ lastCall'.builds = 0
          /\ mmdIndexInstance' = mmdIndexInstance
          /\ isLoading' = isLoading]_vars

\* a call that looked the excerpt up in the loaded index (it went through
\* getMMDIndex) while the transcript file held another transcript, without
\* constructing, loading or building anything
C10_Witness ==
    /\ Called("getRelevantContext")
    /\ Loaded
    /\ "occurrences" \in Elements(lastCall.result.steps)
    /\ lastCall.created = 0
    /\ lastCall.attempts = 0
    /\ lastCall.builds = 0
    /\ file = DocB
    /\ mmdIndexInstance.linesData = DocA


(***************************************************************************)
(* Long inputs: lines, fragments and chapter numbers that reach the length *)
(* limits of the index and of getRelevantContext                           *)
(***************************************************************************)

\* s repeated n times
Repeat(s, n) == [i \in 1..(n * Len(s)) |-> s[((i - 1) % Len(s)) + 1]]

\* a line of 250 characters and a line break
LongLine == Repeat(<<"a", "b", "c", "d", " ">>, 50) \o <<"\n">>

\* a transcript whose lines are longer than a snippet and whose windows are
\* longer than a rendered context, under a heading with a short title
DocLong ==
    LinesData(<<Page(1, <<<<"\\", "s", "e", "c", "t", "i", "o", "n", "*", "{", "C", "h", "a", "p", "t", "e", "r", " ", "3", "}", "\n">>, LongLine, LongLine, LongLine>>),
                Page(2, <<LongLine, LongLine, <<"s", "h", "o", "r", "t", " ", "e", "n", "d", "\n">>>>)>>)

\* a transcript of one heading and one short line
DocShort == LinesData(<<Page(1, <<<<"\\", "s", "e", "c", "t", "i", "o", "n", "*", "{", "C", "h", "a", "p", "t", "e", "r", " ", "3", "}", "\n">>, <<"s", "h", "o", "r", "t", " ", "e", "n", "d", "\n">>>>)>>)

\* a transcript whose heading has a context of 533 characters
DocMiddle ==
    LinesData(<<Page(1, <<<<"\\", "s", "e", "c", "t", "i", "o", "n", "*", "{", "C", "h", "a", "p", "t", "e", "r", " ", "3", "}", "\n">>, LongLine, LongLine, <<"s", "h", "o", "r", "t", " ", "e", "n", "d", "\n">>>>)>>)

LongFiles == {FileMissing, DocLong, DocShort, DocMiddle}

\* fragments up to and over the 200 characters searched for; three of them
\* share their first 200 characters and differ after them, and the last one
\* has a word of the transcript after its first 200 characters only
LongFragments ==
    {<<"a", "b", "c", "d">>, <<"s", "h", "o", "r", "t">>, <<" ", " ", " ">>, <<>>,
     Repeat(<<"a", "b", "c", "d", " ">>, 40),
     <<" ">> \o Repeat(<<"a", "b", "c", "d", " ">>, 40) \o <<"a", "b", "c", "d">>,
     Repeat(<<"a", "b", "c", "d", " ">>, 40) \o <<"z", "z", "z", "z">>,
     Repeat(<<"z", "z", "z", "z", " ">>, 40) \o <<"s", "h", "o", "r", "t">>}

\* a request naming chapter 3 followed by n more digits
ChapterRequest(n) == <<"f", "i", "x", " ", "c", "h", "a", "p", "t", "e", "r", " ", "3">> \o Repeat(<<"3">>, n)

LongRequests ==
    {<<>>, <<"f", "i", "x", " ", "c", "h", "a", "p", "t", "e", "r", " ", "3">>, ChapterRequest(899), ChapterRequest(931), <<"f", "i", "n", "d", " ", "s", "h", "o", "r", "t">>}

LongMarkdowns == {<<"I", "n", "t", "r", "o", " ", "t", "e", "x", "t", "\n", "\n", "s", "h", "o", "r", "t", " ", "e", "n", "d">>}

FindAllOccurrencesOfLongText ==
    /\ Idle
    /\ HasInstance
    /\ \E text \in LongFragments, maxResults \in {1, MaxOccurrences, 5} :
          lastCall' = QueryCall("findAllOccurrencesWithContext", <<text, maxResults>>,
                                findAllOccurrencesWithContext(mmdIndexInstance, text,
                                                              maxResults))
    /\ UNCHANGED <<file, mmdIndexInstance, isLoading, browser>>

GetRelevantContextOfLongRequest ==
    /\ Idle
    /\ \E markdown \in LongMarkdowns, selectedText \in {Null, <<"a", "b", "c", "d">>, <<"s", "h", "o", "r", "t">>},
          request \in LongRequests, maxChars \in {40, DefaultMaxChars} :
          Returns(getRelevantContext(Gate(mmdIndexInstance, isLoading), file,
                                     markdown, selectedText, request, maxChars),
                  <<markdown, selectedText, request, maxChars>>)
    /\ UNCHANGED <<file, browser>>

ReplaceFile ==
    /\ Idle
    /\ \E f \in LongFiles \ {file} : file' = f
    /\ UNCHANGED <<mmdIndexInstance, isLoading, lastCall, browser>>

InitLong ==
    /\ file \in LongFiles
    /\ mmdIndexInstance = NoInstance
    /\ isLoading = FALSE
    /\ lastCall = NoCall
    /\ InitBrowser

NextLong ==
    \/ ReplaceFile
    \/ GetMMDIndex
    \/ FindAllOccurrencesOfLongText
    \/ GetRelevantContextOfLongRequest
    \/ Return

SpecLong == InitLong /\ [][NextLong]_vars

\* C11: findAllOccurrencesWithContext never returns a record whose rendered
\* context is longer than 1000 characters or whose line snippet is longer
\* than 200 characters, and the lineNum of every record is a line of the
\* index: 0 <= lineNum < total number of lines.
C11_OccurrenceRecordsBounded ==
    Called("findAllOccurrencesWithContext") =>
        \A k \in 1..Len(lastCall.result) :
            /\ Len(lastCall.result[k].context) <= 1000
            /\ Len(lastCall.result[k].text) <= 200
            /\ lastCall.result[k].lineNum >= 0
            /\ lastCall.result[k].lineNum < Len(mmdIndexInstance.lineTexts)

\* a record of the last line of a page whose line and whose window were both
\* cut: the snippet is 200 and the context 1000 characters long, of a line of
\* 251 and a window of 1286 characters
C11_Witness ==
    /\ Called("findAllOccurrencesWithContext")
    /\ Len(lastCall.result) = 3
    /\ lastCall.result[3].lineNum = 3
    /\ Len(LineText(mmdIndexInstance, 3)) = 251
    /\ Len(lastCall.result[3].text) = 200
    /\ Len(getContextAroundLines(mmdIndexInstance, <<3>>, OccurrenceContextLines)) = 1286
    /\ Len(lastCall.result[3].context) = 1000

(***************************************************************************)
(* Transcripts of heading lines: the build, the heading list and           *)
(* findChapter                                                             *)
(***************************************************************************)

SectionChapter3 == <<"\\", "s", "e", "c", "t", "i", "o", "n", "*", "{", "C", "h", "a", "p", "t", "e", "r", " ", "3", ":", " ", "O", "r", "i", "g", "i", "n", "s", "}", "\n">>

ChapterOne == <<"\\", "c", "h", "a", "p", "t", "e", "r", "{", "O", "n", "e", "}", "\n">>

HashChapter2 == <<"#", "#", " ", "c", "h", "a", "p", "t", "e", "r", " ", "2", "\n">>

BraceAfterChapter4 == <<"s", "e", "e", " ", "C", "h", "a", "p", "t", "e", "r", " ", "4", " ", "h", "e", "r", "e", "}", "\n">>

HashNoSpace == <<"#", "C", "h", "a", "p", "t", "e", "r", " ", "5", "\n">>

IndentedSection == <<" ", "\\", "s", "e", "c", "t", "i", "o", "n", "{", "C", "h", "a", "p", "t", "e", "r", " ", "3", "}", "\n">>

\* a section wrapper whose content, 160 characters long, ends in "Chapter 3"
LongSection == <<"\\", "s", "e", "c", "t", "i", "o", "n", "*", "{">> \o Repeat(<<"a", "b", "c", "d", " ">>, 30) \o <<" ", "C", "h", "a", "p", "t", "e", "r", " ", "3", "}", "\n">>

LinePool ==
    {SectionChapter3, ChapterOne, HashChapter2, BraceAfterChapter4, HashNoSpace,
     IndentedSection, LongSection}

\* the lines of the pool that match a heading pattern: all but "#Chapter 5",
\* which has no space after its hash sign and no brace after its number
HeadingLines ==
    {SectionChapter3, ChapterOne, HashChapter2, BraceAfterChapter4, IndentedSection,
     LongSection}

\* what a heading line says once its wrapper is taken off
HeadingContent(line) ==
    IF line = SectionChapter3 THEN <<"C", "h", "a", "p", "t", "e", "r", " ", "3", ":", " ", "O", "r", "i", "g", "i", "n", "s">>
    ELSE IF line = ChapterOne THEN <<"O", "n", "e">>
    ELSE IF line = HashChapter2 THEN <<"c", "h", "a", "p", "t", "e", "r", " ", "2">>
    ELSE IF line = BraceAfterChapter4 THEN <<"C", "h", "a", "p", "t", "e", "r", " ", "4">>
    ELSE IF line = LongSection THEN Repeat(<<"a", "b", "c", "d", " ">>, 30) \o <<" ", "C", "h", "a", "p", "t", "e", "r", " ", "3">>
    ELSE <<"C", "h", "a", "p", "t", "e", "r", " ", "3">>

\* the texts of a page of one line of the pool, or of two of its short lines
PageTexts ==
    {<<a>> : a \in LinePool}
        \cup {<<a, b>> : a, b \in LinePool \ {LongSection}}

\* the transcripts of one page, numbered 2, or of two pages, numbered 2 and 5
BuildFiles ==
    {LinesData(<<Page(2, t)>>) : t \in PageTexts}
        \cup {LinesData(<<Page(2, t), Page(5, u)>>) : t, u \in PageTexts}

\* buildIndex() run again on the instance and the transcript it holds
BuildIndex ==
    /\ Idle
    /\ HasInstance
    /\ mmdIndexInstance' = buildIndex(mmdIndexInstance).inst
    /\ lastCall' = [NoCall EXCEPT !.op = "buildIndex", !.builds = 1]
    /\ UNCHANGED <<file, isLoading, browser>>

InitBuild ==
    /\ file \in BuildFiles
    /\ mmdIndexInstance = NoInstance
    /\ isLoading = FALSE
    /\ lastCall = NoCall
    /\ InitBrowser

NextBuild ==
    \/ GetMMDIndex
    \/ BuildIndex
    \/ GetDocumentStructure
    \/ FindChapter
    \/ Return

SpecBuild == InitBuild /\ [][NextBuild]_vars

\* the number of the page that holds the 0-based line n of the transcript
EnclosingPage(pages, n) ==
    pages[CHOOSE k \in 1..Len(pages) :
             /\ Len(TextsOf(SubSeq(pages, 1, k - 1))) <= n
             /\ n < Len(TextsOf(SubSeq(pages, 1, k)))].page

\* the entries of the heading list for line n
HeadingsAt(n) ==
    {k \in 1..Len(mmdIndexInstance.chapters) : mmdIndexInstance.chapters[k].lineNum = n}

\* line n is in the heading list exactly once, with its global index and the
\* number of its enclosing page
RegisteredOnce(n) ==
    /\ Cardinality(HeadingsAt(n)) = 1
    /\ \A k \in HeadingsAt(n) :
          mmdIndexInstance.chapters[k].page =
              EnclosingPage(mmdIndexInstance.linesData.pages, n)

\* the title of the heading of line n contains what the line says inside its
\* wrapper
TitleHoldsContent(n) ==
    \A k \in HeadingsAt(n) :
        includes(mmdIndexInstance.chapters[k].title, HeadingContent(DocumentLines[n + 1]))

ResultsAt(n) == {k \in 1..Len(lastCall.result) : lastCall.result[k].lineNum = n}

\* C13: for a loaded index holding the heading 'Chapter 3: Origins',
\* findChapter('Chapter 3') and findChapter('3') both return that heading,
\* and no heading is in a findChapter result twice.
C13_FindChapterByNameAndNumber ==
    (Called("findChapter") /\ Loaded /\ mmdIndexInstance.linesData.kind = "object") =>
        /\ \A n \in 0..(Len(DocumentLines) - 1) : Cardinality(ResultsAt(n)) <= 1
        /\ lastCall.args[1] \in {<<"C", "h", "a", "p", "t", "e", "r", " ", "3">>, <<"3">>} =>
               \A n \in LinesWhere(LAMBDA t : t = SectionChapter3) :
                   /\ Cardinality(ResultsAt(n)) = 1
                   /\ \A k \in ResultsAt(n) :
                         lastCall.result[k].title = <<"C", "h", "a", "p", "t", "e", "r", " ", "3", ":", " ", "O", "r", "i", "g", "i", "n", "s">>

\* findChapter('3') on a transcript that holds the heading twice, on lines 0
\* and 2: the substring test found both and the number test added neither
\* again
C13_Witness ==
    /\ Called("findChapter")
    /\ Loaded
    /\ lastCall.args[1] = <<"3">>
    /\ DocumentLines = <<SectionChapter3, HashNoSpace, SectionChapter3>>
    /\ Len(lastCall.result) = 2
    /\ lastCall.result[1].lineNum = 0
    /\ lastCall.result[2].lineNum = 2

\* C14: running buildIndex again on the transcript the index holds leaves
\* getDocumentStructure() as it was: the same headings in the same order,
\* the same total pages and total lines.
C14_RebuildSameStructure ==
    [][(Called("buildIndex")' /\ Loaded) =>
          getDocumentStructure(mmdIndexInstance') = getDocumentStructure(mmdIndexInstance)]_vars

\* a second build of a transcript with three lines and two headings
C14_Witness ==
    /\ Called("buildIndex")
    /\ Loaded
    /\ getDocumentStructure(mmdIndexInstance).totalLines = 3
    /\ getDocumentStructure(mmdIndexInstance).totalPages = 2
    /\ Len(getDocumentStructure(mmdIndexInstance).chapters) = 2

\* the context of the call in progress after the size limit of lines 266-268
ContextWithinLimit ==
    IF Len(lastCall.result.context) > CallMaxChars
    THEN SubSeq(lastCall.result.context, 1, CallMaxChars) \o <<"\n", "[", ".", ".", ".", " ", "t", "r", "u", "n", "c", "a", "t", "e", "d", " ", ".", ".", ".", "]">>
    ELSE lastCall.result.context

\* the openings of the annotations a call can accumulate
AnnotationOpenings ==
    {<<"[", "D", "o", "c", "u", "m", "e", "n", "t", " ", "S", "t", "r", "u", "c", "t", "u", "r", "e", "]">>, <<"[", "S", "e", "l", "e", "c", "t", "e", "d", " ", "T", "e", "x", "t", " ", "L", "o", "c", "a", "t", "i", "o", "n", "]">>, <<"[", "R", "e", "l", "a", "t", "e", "d", " ", "C", "o", "n", "t", "e", "n", "t", "]">>,
     <<"I", "M", "P", "O", "R", "T", "A", "N", "T", ":", " ", "T", "h", "e", " ", "s", "e", "l", "e", "c", "t", "e", "d", " ", "t", "e", "x", "t", " ", "a", "p", "p", "e", "a", "r", "s">>, <<"F", "o", "u", "n", "d", " ", "C", "h", "a", "p", "t", "e", "r">>}

\* C15: getRelevantContext appends the annotations accumulated during the
\* call to the returned context only if their combined length is under 2000
\* characters; when it is 2000 or more, the result is the context alone and
\* holds none of the annotation text.
C15_AnnotationsUnderCap ==
    Called("getRelevantContext") =>
        IF Len(lastCall.result.enhancedInfo) < 2000
        THEN CallResult = ContextWithinLimit \o lastCall.result.enhancedInfo
        ELSE /\ CallResult = ContextWithinLimit
             /\ \A a \in AnnotationOpenings : ~includes(CallResult, a)

\* a request naming a chapter number of 932 digits, answered from the long
\* transcript: the structure note and the chapter note are 2000 characters
\* together and the result is the heading's context alone
C15_Witness ==
    /\ Called("getRelevantContext")
    /\ CallRequest = ChapterRequest(931)
    /\ Len(lastCall.result.enhancedInfo) = 2000
    /\ includes(lastCall.result.enhancedInfo, <<"[", "D", "o", "c", "u", "m", "e", "n", "t", " ", "S", "t", "r", "u", "c", "t", "u", "r", "e", "]">>)
    /\ includes(lastCall.result.enhancedInfo, <<"F", "o", "u", "n", "d", " ", "C", "h", "a", "p", "t", "e", "r">>)
    /\ Len(lastCall.result.context) > 0
    /\ CallResult = lastCall.result.context

\* the first n characters of s
FirstChars(s, n) == SubSeq(s, 1, IF Len(s) < n THEN Len(s) ELSE n)

\* C16: findAllOccurrencesWithContext returns no occurrences for an empty or
\* whitespace-only fragment, and for any other fragment it returns what it
\* returns for the first 200 characters of the trimmed fragment: what
\* follows them is not searched for.
C16_FragmentCutBeforeSearch ==
    Called("findAllOccurrencesWithContext") =>
        /\ (\A i \in 1..Len(lastCall.args[1]) : lastCall.args[1][i] \in Whitespace) =>
               lastCall.result = <<>>
        /\ lastCall.result =
               findAllOccurrencesWithContext(mmdIndexInstance,
                                             FirstChars(trim(lastCall.args[1]), 200),
                                             lastCall.args[2])

\* a fragment of 205 characters whose last word, the only one the transcript
\* holds, comes after the first 200: no occurrence is returned, while the
\* word alone has one
C16_Witness ==
    /\ Called("findAllOccurrencesWithContext")
    /\ Loaded
    /\ lastCall.args[1] = Repeat(<<"z", "z", "z", "z", " ">>, 40) \o <<"s", "h", "o", "r", "t">>
    /\ lastCall.result = <<>>
    /\ Len(findAllOccurrencesWithContext(mmdIndexInstance, <<"s", "h", "o", "r", "t">>, lastCall.args[2])) = 1

(***************************************************************************)
(* The browser's index: load and findAllOccurrences                        *)
(***************************************************************************)

\* fragments a caller can look for: plain words, and fragments holding a dot
\* or parentheses
Patterns ==
    {<<"a", "l", "p", "h", "a">>, <<"a", ".", "p", "h", "a">>, <<".">>, <<"x", ".", "z">>, <<"(">>, <<"(", "a", "b", ")">>, <<"a", "b", ")">>, <<>>, <<"c", "d">>,
     <<"A", "l", "p", "h", "a", " ", "b", "e", "t", "a">>, <<"z", "z", "z", "z">>}

\* mmdIndex.load() in the browser
ClientLoad ==
    /\ Idle
    /\ mmdIndex' = MMDIndex_load(mmdIndex, file)
    /\ lastCall' = QueryCall("MMDIndex.load", <<>>, <<>>)
    /\ UNCHANGED <<file, mmdIndexInstance, isLoading, store, storeCalls, chat>>

\* mmdIndex.findAllOccurrences(pattern) in the browser
ClientFindAllOccurrences ==
    /\ Idle
    /\ \E pattern \in Patterns :
          lastCall' = QueryCall("MMDIndex.findAllOccurrences", <<pattern>>,
                                MMDIndex_findAllOccurrences(mmdIndex, pattern))
    /\ UNCHANGED <<file, mmdIndexInstance, isLoading, browser>>

NextClient ==
    \/ WriteFile
    \/ ClientLoad
    \/ ClientFindAllOccurrences
    \/ Return

SpecClient == Init /\ [][NextClient]_vars

\* regex.test(text) for a pattern compiled from an escaped fragment: every
\* character of the fragment stands for itself
EscapedTest(fragment, text) == includes(toLowerCase(text), toLowerCase(fragment))

\* what findAllOccurrences returns when it escapes the fragment before it
\* compiles it
FoundWithEscaping(index, fragment) ==
    IF ~index.loaded \/ index.linesData.kind = "null"
    THEN [threw |-> FALSE, value |-> <<>>]
    ELSE [threw |-> FALSE,
          value |-> MMDIndex_matchingLines(index, LAMBDA t : EscapedTest(fragment, t))]

\* C17: the browser index's findAllOccurrences escapes the special
\* characters of the fragment it is given before it compiles it, as the
\* other places that compile a fragment do: whatever the fragment, the call
\* does not end in a SyntaxError and returns the lines that hold the
\* fragment character for character.
C17_FragmentEscapedBeforeCompile ==
    Called("MMDIndex.findAllOccurrences") =>
        lastCall.result = FoundWithEscaping(mmdIndex, lastCall.args[1])

(***************************************************************************)
(* The markdown store: loadMarkdown, setMarkdown, undo and redo            *)
(***************************************************************************)

TextOne == <<"#", " ", "O", "n", "e">>

TextTwo == <<"#", " ", "T", "w", "o">>

ManualText == <<"#", " ", "M", "a", "n", "u", "a", "l">>

StoreTexts == {TextOne, TextTwo}

\* the longest history a setMarkdown call may leave
MaxHistory == 3

\* a call that changes the store, with its argument
StoreCall(op, arg) == [op |-> op, arg |-> arg]

\* the last three calls that changed the store, c being the newest
Remember(calls, c) ==
    IF Len(calls) < 3 THEN Append(calls, c) ELSE Append(Tail(calls), c)

\* the action of a call op(arg) that leaves the store in s
StoreBecomes(op, arg, s) ==
    /\ store' = s
    /\ storeCalls' = Remember(storeCalls, StoreCall(op, arg))
    /\ lastCall' = QueryCall(op, arg, <<>>)
    /\ UNCHANGED <<file, mmdIndexInstance, isLoading, mmdIndex, chat>>

LoadMarkdown ==
    /\ Idle
    /\ \E response \in {ManualMissing, Manual(ManualText)} :
          StoreBecomes("loadMarkdown", <<>>, loadMarkdown(store, response))

SetMarkdown ==
    /\ Idle
    /\ store.historyIndex + 2 <= MaxHistory
    /\ \E newMd \in StoreTexts :
          StoreBecomes("setMarkdown", <<newMd>>, setMarkdown(store, newMd))

Undo ==
    /\ Idle
    /\ StoreBecomes("undo", <<>>, undo(store))

Redo ==
    /\ Idle
    /\ StoreBecomes("redo", <<>>, redo(store))

CanUndo ==
    /\ Idle
    /\ lastCall' = QueryCall("canUndo", <<>>, canUndo(store))
    /\ UNCHANGED <<file, mmdIndexInstance, isLoading, browser>>

CanRedo ==
    /\ Idle
    /\ lastCall' = QueryCall("canRedo", <<>>, canRedo(store))
    /\ UNCHANGED <<file, mmdIndexInstance, isLoading, browser>>

InitStore ==
    /\ file = FileMissing
    /\ mmdIndexInstance = NoInstance
    /\ isLoading = FALSE
    /\ lastCall = NoCall
    /\ InitBrowser

NextStore ==
    \/ LoadMarkdown
    \/ SetMarkdown
    \/ Undo
    \/ Redo
    \/ CanUndo
    \/ CanRedo
    \/ Return

SpecStore == InitStore /\ [][NextStore]_vars

\* the call that starts from an idle state is op
Calls(op) == Idle /\ Called(op)'

\* the two newest calls that changed the store were setMarkdown(a) and then
\* setMarkdown(b)
SetTwice(calls, a, b) ==
    /\ Len(calls) >= 2
    /\ calls[Len(calls) - 1] = StoreCall("setMarkdown", <<a>>)
    /\ calls[Len(calls)] = StoreCall("setMarkdown", <<b>>)

\* C18: after setMarkdown(a) followed by setMarkdown(b), undo makes markdown
\* equal a, and a following redo makes markdown equal b again; undo at the
\* oldest entry of the history and redo at the newest one leave the state of
\* the store unchanged.
C18_UndoRedoThroughChanges ==
    [][/\ \A a, b \in StoreTexts :
             /\ (Calls("undo") /\ SetTwice(storeCalls, a, b)) => store'.markdown = a
             /\ (/\ Calls("redo")
                 /\ Len(storeCalls) = 3
                 /\ SetTwice(SubSeq(storeCalls, 1, 2), a, b)
                 /\ storeCalls[3] = StoreCall("undo", <<>>)) => store'.markdown = b
       /\ (Calls("undo") /\ store.historyIndex = 0) => store' = store
       /\ (Calls("redo") /\ store.historyIndex = Len(store.history) - 1) => store' = store
      ]_vars

\* the store after loadMarkdown, setMarkdown("# One"), setMarkdown("# Two"),
\* undo and redo: the redo has brought back "# Two", the newest of the three
\* entries of the history
C18_Witness ==
    /\ Called("redo")
    /\ storeCalls = <<StoreCall("setMarkdown", <<TextTwo>>), StoreCall("undo", <<>>),
                      StoreCall("redo", <<>>)>>
    /\ store = [markdown |-> TextTwo, history |-> <<ManualText, TextOne, TextTwo>>,
                historyIndex |-> 2]

\* the steps of getRelevantContext in their order of priority
StepOrder ==
    <<"occurrences", "substring", "mentions", "chapters", "keywords", "rename", "fallback">>

StepRank(step) == CHOOSE k \in 1..Len(StepOrder) : StepOrder[k] = step

\* the excerpt of the call in progress is present and not blank
ExcerptGiven ==
    /\ CallSelectedText # Null
    /\ \E i \in 1..Len(CallSelectedText) : CallSelectedText[i] \notin Whitespace

\* C19: getRelevantContext runs its steps in their order of priority; with
\* a non-blank excerpt only the occurrence step and its substring fallback
\* run before the head/tail fallback; without one, the chapter-heading step
\* and the keyword step run only when the context so far is shorter than
\* 1000 characters, the rename-pattern step only when it is shorter than
\* 500 characters; the head/tail fallback runs only when the context is
\* still empty.
C19_StepsInPriorityOrder ==
    Called("getRelevantContext") =>
        /\ \A j, k \in 1..Len(lastCall.result.steps) :
               j < k => StepRank(lastCall.result.steps[j]) < StepRank(lastCall.result.steps[k])
        /\ IF ExcerptGiven
           THEN /\ Len(lastCall.result.steps) >= 1
                /\ lastCall.result.steps[1] = "occurrences"
                /\ Elements(lastCall.result.steps)
                       \subseteq {"occurrences", "substring", "fallback"}
           ELSE Elements(lastCall.result.steps) \cap {"occurrences", "substring"} = {}
        /\ \A k \in 1..Len(lastCall.result.steps) :
               /\ lastCall.result.steps[k] \in {"chapters", "keywords"} =>
                      lastCall.result.lengths[k] < 1000
               /\ lastCall.result.steps[k] = "rename" => lastCall.result.lengths[k] < 500
               /\ lastCall.result.steps[k] = "fallback" => lastCall.result.lengths[k] = 0

\* a request naming chapter 3 and no excerpt, answered from a heading whose
\* context is 533 characters long: the keyword step was entered with them,
\* and neither the rename-pattern step nor the fallback ran
C19_Witness ==
    /\ Called("getRelevantContext")
    /\ CallSelectedText = Null
    /\ CallRequest = <<"f", "i", "x", " ", "c", "h", "a", "p", "t", "e", "r", " ", "3">>
    /\ lastCall.result.steps = <<"mentions", "chapters", "keywords">>
    /\ lastCall.result.lengths = <<0, 0, 533>>
    /\ Len(lastCall.result.context) = 533

\* the marker of a cut context
CutMarker == <<"\n", "[", ".", ".", ".", " ", "t", "r", "u", "n", "c", "a", "t", "e", "d", " ", ".", ".", ".", "]">>

\* C20: when the context getRelevantContext has assembled is longer than
\* the budget, what it returns starts with exactly the first maxChars
\* characters of the context followed by the marker '\n[... truncated ...]';
\* when the context is not longer than the budget, what it returns starts
\* with the whole context and holds no marker.
C20_CutToBudgetWithMarker ==
    Called("getRelevantContext") =>
        IF Len(lastCall.result.context) > CallMaxChars
        THEN /\ Len(CallResult) >= CallMaxChars + Len(CutMarker)
             /\ SubSeq(CallResult, 1, CallMaxChars) =
                    SubSeq(lastCall.result.context, 1, CallMaxChars)
             /\ SubSeq(CallResult, CallMaxChars + 1, CallMaxChars + Len(CutMarker)) = CutMarker
        ELSE /\ Len(CallResult) >= Len(lastCall.result.context)
             /\ SubSeq(CallResult, 1, Len(lastCall.result.context)) = lastCall.result.context
             /\ ~includes(CallResult, CutMarker)

\* a call with a budget of 40 characters whose context is the whole
\* document of 48 characters: the result is its first 40 characters and the
\* marker
C20_Witness ==
    /\ Called("getRelevantContext")
    /\ CallMaxChars = 40
    /\ CallMarkdown = MarkdownB
    /\ lastCall.result.context = MarkdownB
    /\ CallResult = <<"I", "n", "t", "r", "o", " ", "t", "e", "x", "t", "\n", "\n", "A", "l", "p", "h", "a", " ", "b", "e", "t", "a", " ", "h", "e", "r", "e", "\n", "\n", "C", "h", "a", "p", "t", "e", "r", " ", "3", " ", "o", "\n", "[", ".", ".", ".", " ", "t", "r", "u", "n", "c", "a", "t", "e", "d", " ", ".", ".", ".", "]">>

(***************************************************************************)
(* Transcripts of many equal lines: the caps of the token index            *)
(***************************************************************************)

\* a transcript of n times the same line on one page
SameLines(text, n) == LinesData(<<Page(1, [i \in 1..n |-> text])>>)

\* 51 lines that are one word, and 101 lines of two words
CapFiles == {SameLines(<<"a", "l", "p", "h", "a", "\n">>, 51), SameLines(<<"a", "l", "p", "h", "a", " ", "b", "e", "t", "a", "\n">>, 101), DocA}

ReplaceCapFile ==
    /\ Idle
    /\ \E f \in CapFiles \ {file} : file' = f
    /\ UNCHANGED <<mmdIndexInstance, isLoading, lastCall, browser>>

InitCaps ==
    /\ file \in CapFiles
    /\ mmdIndexInstance = NoInstance
    /\ isLoading = FALSE
    /\ lastCall = NoCall
    /\ InitBrowser

NextCaps ==
    \/ ReplaceCapFile
    \/ GetMMDIndex
    \/ FindTextLines
    \/ Return

SpecCaps == InitCaps /\ [][NextCaps]_vars

\* key is the full normalized text of a line of the transcript
FullLineKey(key) == LinesWhere(LAMBDA t : toLowerCase(trim(t)) = key) # {}

\* C21: after a build, every value list of the token index holds line
\* indices in ascending order with no index repeated, and is no longer than
\* the cap for its key: 50 entries for a key that is the full normalized
\* text of a line, also when that key is a word of lines too, and 100
\* entries for any other key.
C21_TokenListsOrderedAndCapped ==
    Loaded =>
        \A key \in DOMAIN mmdIndexInstance.textToLinesMap :
            /\ StrictlyAscending(mmdIndexInstance.textToLinesMap[key])
            /\ Len(mmdIndexInstance.textToLinesMap[key]) <=
                   (IF FullLineKey(key) THEN 50 ELSE 100)


(* Long markdowns: the windows and the budget of getRelevantContext *)
\* n characters of running text
Filler(n) == SubSeq(Repeat(<<"l", "o", "r", "e", "m", " ", "i", "p", "s", "u", "m", " ">>, (n \div 12) + 1), 1, n)

\* "Intro" at position 495, "Chapter 3" at 4500 and "omega" at 6509 of 8014
MarkdownLong ==
    Filler(495) \o <<"I", "n", "t", "r", "o">> \o Filler(4000) \o <<"C", "h", "a", "p", "t", "e", "r", " ", "3">> \o Filler(2000)
        \o <<"o", "m", "e", "g", "a">> \o Filler(1500)

\* "omega" at position 5200 of 10405
MarkdownHuge == Filler(5200) \o <<"o", "m", "e", "g", "a">> \o Filler(5200)

ContextMarkdowns == {MarkdownLong, MarkdownHuge}

ContextSelections == {Null, <<"o", "m", "e", "g", "a">>, <<"z", "z", "z", "z">>}

ContextRequests ==
    {<<>>, <<"f", "i", "x", " ", "'", "I", "n", "t", "r", "o", "'", " ", "a", "n", "d", " ", "'", "o", "m", "e", "g", "a", "'", " ", "i", "n", " ", "c", "h", "a", "p", "t", "e", "r", " ", "3">>, <<"f", "i", "x", " ", "'", "z", "z", "z", "z", "'", " ", "a", "n", "d", " ", "'", "o", "m", "e", "g", "a", "'">>,
     <<"f", "i", "x", " ", "'", "o", "m", "e", "g", "a", "'", " ", "a", "n", "d", " ", "'", "I", "n", "t", "r", "o", "'">>}

ContextBudgets == {4000, 5000, DefaultMaxChars}

ContextFiles == {FileMissing, DocA}

ReplaceContextFile ==
    /\ Idle
    /\ \E f \in ContextFiles \ {file} : file' = f
    /\ UNCHANGED <<mmdIndexInstance, isLoading, lastCall, browser>>

GetRelevantContextOfLongMarkdown ==
    /\ Idle
    /\ \E markdown \in ContextMarkdowns, selectedText \in ContextSelections,
          request \in ContextRequests, maxChars \in ContextBudgets :
          Returns(getRelevantContext(Gate(mmdIndexInstance, isLoading), file,
                                     markdown, selectedText, request, maxChars),
                  <<markdown, selectedText, request, maxChars>>)
    /\ UNCHANGED <<file, browser>>

InitContext ==
    /\ file \in ContextFiles
    /\ mmdIndexInstance = NoInstance
    /\ isLoading = FALSE
    /\ lastCall = NoCall
    /\ InitBrowser


\* the characters of the raw text from 3000 before the first occurrence of
\* the mention to 3000 after its end
MentionWindow(markdown, mention) ==
    LET i == indexOf(markdown, mention)
    IN  SubSeq(markdown,
               SetMax({0, i - 3000}) + 1,
               SetMin({Len(markdown), i + Len(mention) + 3000}))

\* the mentions that occur in the raw text, in extraction order
MentionsFound(markdown, request) ==
    SelectSeq(extractMentions(request), LAMBDA x : indexOf(markdown, x) # -1)

\* the windows of the first k found mentions, joined
RECURSIVE WindowsJoined(_, _, _)
WindowsJoined(markdown, found, k) ==
    IF k = 0 THEN <<>>
    ELSE IF k = 1 THEN MentionWindow(markdown, found[1])
    ELSE WindowsJoined(markdown, found, k - 1) \o <<"\n", "\n", "[", ".", ".", ".", "]", "\n", "\n">>
             \o MentionWindow(markdown, found[k])

\* the number of found mentions taken: up to the first one whose window
\* makes the context longer than 70% of the budget
MentionsTaken(markdown, found, maxChars) ==
    LET over == {k \in 1..Len(found) :
                    Len(WindowsJoined(markdown, found, k)) * 10 > maxChars * 7}
    IN  IF over = {} THEN Len(found) ELSE SetMin(over)

\* C22: in a call without excerpt, the mention step takes the mentions in
\* extraction order, adds for each mention found the window of 3000
\* characters around its first occurrence, joined with "\n\n[...]\n\n", and
\* takes no further mention once the context is longer than 70% of the budget.
C22_MentionWindowsUntilBudget ==
    (Called("getRelevantContext") /\ ~HasSelection(CallSelectedText)) =>
        lastCall.result.mentioned =
            WindowsJoined(CallMarkdown, MentionsFound(CallMarkdown, CallRequest),
                          MentionsTaken(CallMarkdown,
                                        MentionsFound(CallMarkdown, CallRequest),
                                        CallMaxChars))

\* three mentions found and a budget of 5000: the first window has exactly
\* 3500 characters, which is not over 70%, and the second one ends the loop
C22_Witness ==
    /\ Called("getRelevantContext")
    /\ ~HasSelection(CallSelectedText)
    /\ CallMarkdown = MarkdownLong
    /\ CallMaxChars = 5000
    /\ Len(MentionsFound(CallMarkdown, CallRequest)) = 3
    /\ Len(MentionWindow(CallMarkdown, <<"I", "n", "t", "r", "o">>)) = 3500
    /\ Len(lastCall.result.mentioned) = 8014
    /\ lastCall.result.context = lastCall.result.mentioned

\* six blocks; for the keywords alpha and beta their scores are 2, 0, 1, 3, 1, 2
MarkdownBlocks ==
    <<"a", "l", "p", "h", "a", " ", "A", "l", "p", "h", "a", "\n", "\n", "n", "o", "t", "h", "i", "n", "g", "\n", "\n", "b", "e", "t", "a", "\n", "\n", "a", "l", "p", "h", "a", " ", "b", "e", "t", "a", " ", "A", "L", "P", "H", "A", "\n", "\n", "\n", "a", "l", "p", "h", "a", "\n", "\n", "b", "e", "t", "a", " ", "a", "l", "p", "h", "a">>

SectionMarkdowns == {MarkdownBlocks, MarkdownB, <<>>}

SectionKeywords == {<<>>, <<<<"a", "l", "p", "h", "a">>>>, <<<<"a", "l", "p", "h", "a">>, <<"b", "e", "t", "a">>>>, <<<<"z", "z", "z", "z">>>>}

FindRelevantSections ==
    /\ Idle
    /\ \E markdown \in SectionMarkdowns, keywords \in SectionKeywords,
          maxResults \in {1, TopSections, 5} :
          lastCall' = QueryCall("findRelevantSections", <<markdown, keywords, maxResults>>,
                                findRelevantSections(markdown, keywords, maxResults))
    /\ UNCHANGED <<file, mmdIndexInstance, isLoading, browser>>

NextContext ==
    \/ ReplaceContextFile
    \/ GetMMDIndex
    \/ GetRelevantContextOfLongMarkdown
    \/ FindRelevantSections
    \/ Return

SpecContext == InitContext /\ [][NextContext]_vars

\* the summed occurrence counts of the keywords in a block, letter case aside
BlockScore(block, keywords) ==
    Sum([k \in 1..Len(keywords) |->
            CountMatches(toLowerCase(block), toLowerCase(keywords[k]))])

\* of the blocks numbered in S the k best: by falling score, and by position
\* in the document among blocks of one score
RECURSIVE BestBlocks(_, _, _, _)
BestBlocks(blocks, keywords, S, k) ==
    IF S = {} \/ k = 0 THEN <<>>
    ELSE LET best == CHOOSE i \in S : \A j \in S :
                        \/ BlockScore(blocks[i], keywords) > BlockScore(blocks[j], keywords)
                        \/ /\ BlockScore(blocks[i], keywords) = BlockScore(blocks[j], keywords)
                           /\ i <= j
         IN  <<best>> \o BestBlocks(blocks, keywords, S \ {best}, k - 1)

\* block i with the block before and the block after it, where there is one
PaddedBlock(blocks, i) ==
    (IF i > 1 THEN blocks[i - 1] \o <<"\n", "\n">> ELSE <<>>)
        \o blocks[i]
        \o (IF i < Len(blocks) THEN <<"\n", "\n">> \o blocks[i + 1] ELSE <<>>)

\* the entries findRelevantSections is to return for the call in progress
SectionsExpected ==
    LET blocks == splitBlankLines(lastCall.args[1])
        best == BestBlocks(blocks, lastCall.args[2],
                           {i \in 1..Len(blocks) : BlockScore(blocks[i], lastCall.args[2]) > 0},
                           lastCall.args[3])
    IN  [r \in 1..Len(best) |-> PaddedBlock(blocks, best[r])]

\* C23: findRelevantSections scores every block between blank lines by the
\* summed occurrence counts of the keywords, letter case aside, and returns
\* at most maxResults entries, of the blocks with a positive score in falling
\* score order and in document order among equal scores; each entry is the
\* block with its neighbouring block before and after, where they exist.
C23_BestSectionsPadded ==
    Called("findRelevantSections") =>
        /\ Len(lastCall.result) <= lastCall.args[3]
        /\ lastCall.result = SectionsExpected

\* blocks scoring 2, 0, 1, 3, 1, 2: the three best are the fourth, the first
\* and the sixth block
C23_Witness ==
    /\ Called("findRelevantSections")
    /\ lastCall.args = <<MarkdownBlocks, <<<<"a", "l", "p", "h", "a">>, <<"b", "e", "t", "a">>>>, TopSections>>
    /\ lastCall.result = <<<<"b", "e", "t", "a", "\n", "\n", "a", "l", "p", "h", "a", " ", "b", "e", "t", "a", " ", "A", "L", "P", "H", "A", "\n", "\n", "a", "l", "p", "h", "a">>,
                           <<"a", "l", "p", "h", "a", " ", "A", "l", "p", "h", "a", "\n", "\n", "n", "o", "t", "h", "i", "n", "g">>,
                           <<"a", "l", "p", "h", "a", "\n", "\n", "b", "e", "t", "a", " ", "a", "l", "p", "h", "a">>>>

\* the head and the tail of the raw text around the notice that it continues
HeadAndTail(markdown, maxChars) ==
    SubSeq(markdown, 1, (maxChars * 7) \div 10)
        \o <<"\n", "\n", "[", ".", ".", ".", " ", "d", "o", "c", "u", "m", "e", "n", "t", " ", "c", "o", "n", "t", "i", "n", "u", "e", "s", " ", ".", ".", ".", "]", "\n", "\n">>
        \o SubSeq(markdown, Len(markdown) - ((maxChars * 3) \div 10) + 1, Len(markdown))

\* C25: with an excerpt and no index available, the context before the size
\* limit is the raw text from 5000 characters before the first occurrence of
\* the excerpt to 5000 characters after its end, cut at the ends of the raw
\* text; when the excerpt does not occur, it is the head and tail fallback.
C25_ExcerptWindowWithoutIndex ==
    (/\ Called("getRelevantContext")
     /\ HasSelection(CallSelectedText)
     /\ ~Loaded) =>
        LET i == indexOf(CallMarkdown, CallSelectedText)
        IN  IF i # -1
            THEN lastCall.result.context =
                     SubSeq(CallMarkdown, SetMax({0, i - 5000}) + 1,
                            SetMin({Len(CallMarkdown), i + Len(CallSelectedText) + 5000}))
            ELSE lastCall.result.context =
                     (IF Len(CallMarkdown) > CallMaxChars
                      THEN HeadAndTail(CallMarkdown, CallMaxChars)
                      ELSE CallMarkdown)

\* "omega" at position 5200 of 10405 characters: the window runs from 200 to
\* 10205
C25_Witness ==
    /\ Called("getRelevantContext")
    /\ ~Loaded
    /\ CallMarkdown = MarkdownHuge
    /\ CallSelectedText = <<"o", "m", "e", "g", "a">>
    /\ lastCall.result.context = SubSeq(MarkdownHuge, 201, 10205)
    /\ lastCall.result.steps = <<"occurrences", "substring">>

(* The index as a whole: a transcript that fails to build, then is replaced *)
\* a transcript whose heading on page 2 is followed by a line without text
DocHeadingThenBad ==
    LinesData(<<Page(1, <<<<"I", "n", "t", "r", "o", " ", "t", "e", "x", "t", "\n">>>>),
                Page(2, <<<<"#", " ", "C", "h", "a", "p", "t", "e", "r", " ", "1", "2", "\n">>, Undefined>>)>>)

ReloadFiles == {FileMissing, JsonNull, DocA, DocB, DocHeadingThenBad}

ReplaceReloadFile ==
    /\ Idle
    /\ \E f \in ReloadFiles \ {file} : file' = f
    /\ UNCHANGED <<mmdIndexInstance, isLoading, lastCall, browser>>

InitReload ==
    /\ file \in ReloadFiles
    /\ mmdIndexInstance = NoInstance
    /\ isLoading = FALSE
    /\ lastCall = NoCall
    /\ InitBrowser

NextReload ==
    ReplaceReloadFile \/ GetMMDIndex \/ Load \/ IsLoaded \/ GetPageForLine \/ Return

SpecReload == InitReload /\ [][NextReload]_vars

\* C24: the lines of the transcript are numbered 0, 1, 2, ... in page order
\* and, within a page, in line order; for every line number below the number
\* of lines getPageForLine returns the page number of the page that holds the
\* line, and for every heading it returns the heading's page.
C24_PageOfEveryLine ==
    Loaded =>
        /\ \A i \in 1..Len(DocumentLines) : mmdIndexInstance.lineTexts[i] = DocumentLines[i]
        /\ (Called("getPageForLine") /\ lastCall.args[1] < Len(DocumentLines)) =>
               lastCall.result = EnclosingPage(mmdIndexInstance.linesData.pages,
                                               lastCall.args[1])
        /\ \A k \in 1..Len(mmdIndexInstance.chapters) :
               getPageForLine(mmdIndexInstance, mmdIndexInstance.chapters[k].lineNum)
                   = mmdIndexInstance.chapters[k].page

\* C26: whenever isLoaded() is true the transcript data is not null and the
\* index is complete: the line store has as many entries as the pages have
\* lines, and the token index and the heading list are those a build over
\* every line gives.
C26_LoadedMeansComplete ==
    Loaded =>
        /\ mmdIndexInstance.linesData.kind = "object"
        /\ Len(mmdIndexInstance.lineTexts) = Len(TextsOf(mmdIndexInstance.linesData.pages))
        /\ buildIndex(mmdIndexInstance).inst = mmdIndexInstance

\* C27: every getMMDIndex call, the one that creates the singleton as well as
\* a later one, makes at most one load attempt, that is at most one load()
\* call that reaches the file lookup, and isLoading is false when it returns.
C27_OneLoadAttemptPerCall ==
    Called("getMMDIndex") =>
        /\ lastCall.attempts <= 1
        /\ isLoading = FALSE

\* C28: within one getRelevantContext call the steps after the mention step
\* only append to the context: the text the mention step put into the
\* context is still in the context when the size limit is applied.
C28_MentionTextKept ==
    (Called("getRelevantContext") /\ ~HasSelection(CallSelectedText)) =>
        includes(lastCall.result.context, lastCall.result.mentioned)

\* the store points at an entry of its history, and markdown is that entry
PointsAtEntry(s) ==
    /\ 0 <= s.historyIndex
    /\ s.historyIndex < Len(s.history)
    /\ s.markdown = s.history[s.historyIndex + 1]

\* C29: after loadMarkdown and any calls of setMarkdown, undo and redo,
\* 0 <= historyIndex < length of history and markdown = history[historyIndex];
\* a setMarkdown call drops every entry after the current one before it adds
\* the new text, so canRedo() is false right after it.
C29_HistoryIndexPointsAtMarkdown ==
    [][/\ store' # InitialStore => PointsAtEntry(store')
       /\ Calls("setMarkdown") =>
              /\ store'.history = Append(SubSeq(store.history, 1, store.historyIndex + 1),
                                         lastCall'.args[1])
              /\ ~canRedo(store')
      ]_vars

\* loadMarkdown, setMarkdown("# One"), undo, setMarkdown("# Two"): the entry
\* "# One" after the current one is gone, and nothing is left to redo
C29_Witness ==
    /\ Called("setMarkdown")
    /\ storeCalls = <<StoreCall("setMarkdown", <<TextOne>>), StoreCall("undo", <<>>),
                      StoreCall("setMarkdown", <<TextTwo>>)>>
    /\ store = [markdown |-> TextTwo, history |-> <<ManualText, TextTwo>>,
                historyIndex |-> 1]
    /\ ~canRedo(store)

(* The chat: submitMessage calls that overlap *)
\* the submitMessage calls made in one behaviour
MaxCalls == 2

\* the chunks one call reads before its stream is done
MaxChunks == 1

ChatInputs == {<<"f", "i", "x", " ", "i", "t">>, <<" ", "s", "h", "o", "r", "t", "e", "n", " ", "\n">>, <<" ", " ">>}

\* the delta content of a line of the stream; empty for a line without
DeltaContents == {<<"D", "o", "n", "e", ".">>, <<>>}

ErrorMessages == {<<"F", "a", "i", "l", "e", "d", " ", "t", "o", " ", "f", "e", "t", "c", "h">>, <<"F", "a", "i", "l", "e", "d", " ", "t", "o", " ", "g", "e", "t", " ", "r", "e", "s", "p", "o", "n", "s", "e">>, <<"T", "o", "o", " ", "m", "a", "n", "y", " ", "r", "e", "q", "u", "e", "s", "t", "s">>}

\* the calls that are at an await
InFlight == {k \in 1..Len(chat.calls) : chat.calls[k].pc \in {"fetch", "errorBody", "read"}}

\* the calls whose message was not blank
Accepted == {k \in 1..Len(chat.calls) : chat.calls[k].pc # "ignored"}

ChatBecomes(c) ==
    /\ chat' = c
    /\ UNCHANGED <<file, mmdIndexInstance, isLoading, lastCall, mmdIndex, store, storeCalls>>

SubmitMessage ==
    /\ Len(chat.calls) < MaxCalls
    /\ \E message \in ChatInputs : ChatBecomes(submitMessage(chat, message))

\* fetch rejects
FetchRejects ==
    \E k \in InFlight :
        /\ chat.calls[k].pc = "fetch"
        /\ ChatBecomes(Failed(chat, k, <<"F", "a", "i", "l", "e", "d", " ", "t", "o", " ", "f", "e", "t", "c", "h">>))

\* fetch resolves with a response that is ok or not, with a body or without
FetchResolves ==
    \E k \in InFlight :
        /\ chat.calls[k].pc = "fetch"
        /\ \/ ChatBecomes(ResponseNotOk(chat, k))
           \/ \E hasBody \in BOOLEAN : ChatBecomes(ResponseOk(chat, k, hasBody))

\* lines 74-79: the body of the error response gives the message that is thrown
ErrorBodyRead ==
    \E k \in InFlight :
        /\ chat.calls[k].pc = "errorBody"
        /\ \E errorMessage \in ErrorMessages : ChatBecomes(Failed(chat, k, errorMessage))

ReadResolves ==
    \E k \in InFlight :
        /\ chat.calls[k].pc = "read"
        /\ \/ /\ chat.calls[k].chunks < MaxChunks
              /\ \E content \in DeltaContents : ChatBecomes(ReadChunk(chat, k, content))
           \/ ChatBecomes(ReadDone(chat, k))

\* reader.read() rejects
ReadRejects ==
    \E k \in InFlight :
        /\ chat.calls[k].pc = "read"
        /\ ChatBecomes(Failed(chat, k, <<"F", "a", "i", "l", "e", "d", " ", "t", "o", " ", "f", "e", "t", "c", "h">>))

InitChat ==
    /\ file = FileMissing
    /\ mmdIndexInstance = NoInstance
    /\ isLoading = FALSE
    /\ lastCall = NoCall
    /\ InitBrowser

NextChat ==
    \/ SubmitMessage
    \/ FetchRejects
    \/ FetchResolves
    \/ ErrorBodyRead
    \/ ReadResolves
    \/ ReadRejects

SpecChat == InitChat /\ [][NextChat]_vars

\* the messages of a role
MessagesOf(role) == SelectSeq(chat.messages, LAMBDA msg : msg.role = role)

\* C30: in useChat, however submitMessage calls overlap, isLoading is true as
\* long as a call has not reached its finally block, and every call with a
\* message that is not blank appends one user message and, later, one
\* assistant message: there are as many user messages as such calls and as
\* many assistant messages as such calls that have finished.
C30_LoadingWhileAnyCallInFlight ==
    /\ InFlight # {} => chat.isLoading
    /\ Len(MessagesOf("user")) = Cardinality(Accepted)
    /\ Len(MessagesOf("assistant")) = Cardinality(Accepted \ InFlight)
====
